---- MODULE Spec2Model ----
(***************************************************************************)
(* A model of the Midea LAN library: the LocalSecurity v3 codec            *)
(* (lib/core/message.js) at the level of bytes, and the MideaDevice        *)
(* session engine (lib/core/device.js) at the level of event-loop          *)
(* callbacks.  Every action is one macrotask of the JavaScript event loop: *)
(* a user call, a timer, or a socket event, together with all the promise  *)
(* continuations it runs before the loop is idle again.                    *)
(*                                                                         *)
(* The crypto library (node:crypto) is not code of the repository.  It is  *)
(* modelled by small functions with the algebra the code relies on: the    *)
(* CBC cipher is an invertible keyed chained transform on 16-byte blocks   *)
(* that rejects other lengths, the digests are deterministic functions of  *)
(* their input with the library's output lengths.                          *)
(***************************************************************************)
EXTENDS Integers, Sequences, FiniteSets, TLC

VARIABLES
  d,    \* the MideaDevice object: fields, LocalSecurity, socket, _run loops
  cx    \* the stream fed to parseMessage by the codec specifications

vars == <<d, cx>>

(***************************************************************************)
(* Program constants                                                       *)
(***************************************************************************)
MSGTYPE_HANDSHAKE_REQUEST == 0
MSGTYPE_HANDSHAKE_RESPONSE == 1
MSGTYPE_ENCRYPTED_RESPONSE == 3
MSGTYPE_ENCRYPTED_REQUEST == 6
CounterWrap == 65535
BlockSize == 16
SignLen == 32
HeartbeatTimeoutTicks == 120
MinHandshakeChunk == 20
CipherKeyLen == 16
NOTIFY1 == 4
QUERY_APPLIANCE == 160

(***************************************************************************)
(* Bounds of the model                                                     *)
(***************************************************************************)
MaxFrames == 2      \* frames put on the inbound stream of a stream run
MaxPayload == 2     \* payload lengths 0..MaxPayload and BlockSize-2+0..MaxPayload
MaxEncodes == 3     \* encode8370 calls of a codec run
MaxLoops == 2       \* activations of _run that exist at a time
MaxCount == 3       \* user and periodic sends stop at this request count
MaxTicks == 1       \* ticks of a Ready loop followed from timeoutCounter 0
LastTicks == 2      \* ticks before the heartbeat timeout that are followed
MaxOverlaps == 1    \* open() calls while an earlier activation of _run is there
MaxBuffer == 7      \* chunks arrive while _buffer is not longer than this
TagLen == 16        \* the bytes of the tag that ends an inner packet
HeadLen == 7        \* the bytes of a message that come as its first chunk

NoKey == <<>>       \* _tcpKey === null
ERROR == <<69, 82, 82, 79, 82>>   \* Buffer.from('ERROR')

Min(a, b) == IF a < b THEN a ELSE b
Max(a, b) == IF a > b THEN a ELSE b

\* Buffer.slice(from, to) with JavaScript's clamping, 0-based and half-open.
Slice(s, from, to) == SubSeq(s, Min(from, Len(s)) + 1, Min(to, Len(s)))
\* Buffer.slice(0, -n) and Buffer.slice(-n)
DropLast(s, n) == SubSeq(s, 1, Max(0, Len(s) - n))
TakeLast(s, n) == SubSeq(s, Max(0, Len(s) - n) + 1, Len(s))

RECURSIVE Xor(_, _)
Xor(a, b) ==
  IF a = 0 THEN b
  ELSE IF b = 0 THEN a
  ELSE 2 * Xor(a \div 2, b \div 2) + ((a + b) % 2)

\* a[i] ^ b[i] where a read past the end is undefined, which ^ takes as 0
bufferXOR(a, b) ==
  [i \in 1..Max(Len(a), Len(b)) |->
     Xor(IF i <= Len(a) THEN a[i] ELSE 0, IF i <= Len(b) THEN b[i] ELSE 0)]

\* sums over x[a..b], by halves
RECURSIVE SumFrom(_, _, _, _)
SumFrom(x, a, b, weighted) ==
  IF a > b THEN 0
  ELSE IF a = b THEN (IF weighted THEN (a + 2) * (x[a] + 1) ELSE x[a])
  ELSE LET m == (a + b) \div 2
       IN SumFrom(x, a, m, weighted) + SumFrom(x, m + 1, b, weighted)
ByteSum(x, i) == SumFrom(x, 1, i, FALSE) % 65536
WeightedSum(x, i) == SumFrom(x, 1, i, TRUE) % 65536

\* crypto.createHash('sha256'): a deterministic 32-byte digest of the input
sha256(x) ==
  LET s1 == ByteSum(x, Len(x))
      s2 == WeightedSum(x, Len(x))
  IN [i \in 1..SignLen |-> (s1 + i * s2 + 7 * i + Len(x)) % 256]

\* crypto.createHash('md5'): a deterministic 16-byte digest of the input
md5(x) ==
  LET s1 == ByteSum(x, Len(x))
      s2 == WeightedSum(x, Len(x))
  IN [i \in 1..TagLen |-> (3 * s1 + i * s2 + 11 * i + Len(x)) % 256]

\* this.salt
salt == <<163, 36, 172, 62, 25, 138, 16, 82, 118, 188, 236, 138, 78, 201, 167, 88,
          144, 151, 65, 225, 20, 6, 125, 112, 139, 73, 22, 86, 12, 85, 158, 81>>

encode32Data(raw) == md5(raw \o salt)

\* the 8-bit checksum of an appliance message: (~sum + 1) & 0xff
checksum(data) == (256 - (ByteSum(data, Len(data)) % 256)) % 256

KeyByte(key, i) == key[((i - 1) % Len(key)) + 1]

\* CBC with iv = 0 and without padding: block i is enciphered after being
\* chained with ciphertext block i-1.  aesCbcEncrypt and aesCbcDecrypt are
\* what the calls return when they return (CipherOk).
RECURSIVE CbcChain(_, _, _)
CbcChain(raw, key, acc) ==
  IF Len(acc) = Len(raw) THEN acc
  ELSE LET i == Len(acc) + 1
           prev == IF i <= BlockSize THEN 0 ELSE acc[i - BlockSize]
       IN CbcChain(raw, key, Append(acc, (raw[i] + prev + KeyByte(key, i) + i) % 256))

\* a cipher that takes a key of any length
WholeBlocks(raw, key) == Len(raw) % BlockSize = 0

\* the call returns: createCipheriv and createDecipheriv throw on a key that
\* is not the cipher's ('aes-128-cbc'), final() on input that is not a whole
\* number of blocks
CipherOk(raw, key) == Len(key) = CipherKeyLen /\ Len(raw) % BlockSize = 0

aesCbcEncrypt(raw, key) == CbcChain(raw, key, <<>>)

aesCbcDecrypt(raw, key) ==
  [i \in 1..Len(raw) |->
     LET prev == IF i <= BlockSize THEN 0 ELSE raw[i - BlockSize]
     IN (raw[i] + 768 - prev - KeyByte(key, i) - (i % 256)) % 256]

IsEncrypted(msgType) ==
  msgType = MSGTYPE_ENCRYPTED_RESPONSE \/ msgType = MSGTYPE_ENCRYPTED_REQUEST

\* new LocalSecurity()
NewSecurity == [tcpKey |-> NoKey, requestCount |-> 0, responseCount |-> 0]

(***************************************************************************)
(* LocalSecurity.tcpKey(response, key).  err: the call threw.              *)
(***************************************************************************)
tcpKey(s, response, key) ==
  IF response = ERROR THEN [sec |-> s, err |-> TRUE]
  ELSE IF Len(response) # 64 THEN [sec |-> s, err |-> TRUE]
  ELSE LET payload == Slice(response, 0, 32)
           sign == Slice(response, 32, 64)
           plain == aesCbcDecrypt(payload, key)
       IN IF ~CipherOk(payload, key) \/ sha256(plain) # sign
          THEN [sec |-> s, err |-> TRUE]
          ELSE [sec |-> [tcpKey |-> bufferXOR(plain, key),
                         requestCount |-> 0, responseCount |-> 0],
                err |-> FALSE]

\* the counter step of encode8370
NextRequestCount(c) == IF c + 1 >= CounterWrap THEN 0 ELSE c + 1

(***************************************************************************)
(* LocalSecurity.encode8370(data, msgType).  rnd is the value of the       *)
(* bytes crypto.randomBytes returns.  err: the call threw; the counter has *)
(* been advanced by then.                                                  *)
\* an encode8370 whose size field counts the two bytes of the request count
encode8370Counted(s, data, msgType, rnd) ==
  LET padded == IF IsEncrypted(msgType)
                THEN data \o [i \in 1..((16 - ((Len(data) + 2) % 16)) % 16) |-> rnd] ELSE data
      size == Len(padded) + 2 + (IF IsEncrypted(msgType) THEN 32 ELSE 0)
      requestCountBytes == <<s.requestCount \div 256, s.requestCount % 256>>
  IN [sec |-> [s EXCEPT !.requestCount = NextRequestCount(s.requestCount)],
      err |-> IsEncrypted(msgType),
      out |-> <<131, 112, size \div 256, size % 256, 32, msgType>>
                \o requestCountBytes \o padded]

(***************************************************************************)
encode8370(s, data, msgType, rnd) ==
  LET enc == IsEncrypted(msgType)
      padding == IF enc /\ (Len(data) + 2) % 16 # 0
                 THEN 16 - ((Len(data) + 2) % 16) ELSE 0
      padded == IF enc THEN data \o [i \in 1..padding |-> rnd] ELSE data
      size == IF enc THEN Len(padded) + 32 ELSE Len(data)
      header == <<131, 112, size \div 256, size % 256, 32, padding * 16 + msgType>>
      requestCountBytes == <<s.requestCount \div 256, s.requestCount % 256>>
      dataToEncrypt == requestCountBytes \o padded
      s1 == [s EXCEPT !.requestCount = NextRequestCount(s.requestCount)]
  IN IF enc
     THEN IF s.tcpKey = NoKey \/ ~CipherOk(dataToEncrypt, s.tcpKey)
          THEN [sec |-> s1, err |-> TRUE, out |-> <<>>]
          ELSE [sec |-> s1, err |-> FALSE,
                out |-> header \o aesCbcEncrypt(dataToEncrypt, s.tcpKey)
                               \o sha256(header \o dataToEncrypt)]
     ELSE [sec |-> s1, err |-> FALSE, out |-> header \o dataToEncrypt]

(***************************************************************************)
(* LocalSecurity.decode8370(data): the while loop, with the packets found  *)
(* so far and the remaining data.  err: the call threw, and the caller     *)
(* gets neither packets nor remainder.                                     *)
(***************************************************************************)
DecodeThrow(s) == [sec |-> s, err |-> TRUE, packets |-> <<>>, rest |-> <<>>]

RECURSIVE decodeLoop(_, _, _)
DecodeCount(s, packets, remaining, payload) ==
  IF Len(payload) < 2 THEN DecodeThrow(s)
  ELSE decodeLoop([s EXCEPT !.responseCount = payload[1] * 256 + payload[2]],
                  Append(packets, Slice(payload, 2, Len(payload))), remaining)

decodeLoop(s, packets, remainingData) ==
  IF Len(remainingData) < 6
  THEN [sec |-> s, err |-> FALSE, packets |-> packets, rest |-> remainingData]
  ELSE
    LET header == Slice(remainingData, 0, 6)
        size == header[3] * 256 + header[4] + 8
    IN IF header[1] # 131 \/ header[2] # 112 THEN DecodeThrow(s)
       ELSE IF Len(remainingData) < size
       THEN [sec |-> s, err |-> FALSE, packets |-> packets, rest |-> remainingData]
       ELSE
         LET currentPacket == Slice(remainingData, 0, size)
             remaining == Slice(remainingData, size, Len(remainingData))
             padding == header[6] \div 16
             msgType == header[6] % 16
             payload == Slice(currentPacket, 6, size)
         IN IF header[5] # 32 THEN DecodeThrow(s)
            ELSE IF IsEncrypted(msgType)
            THEN IF s.tcpKey = NoKey \/ Len(payload) < 32 THEN DecodeThrow(s)
                 ELSE
                   LET sign == TakeLast(payload, 32)
                       encryptedPayload == DropLast(payload, 32)
                   IN IF ~CipherOk(encryptedPayload, s.tcpKey) THEN DecodeThrow(s)
                      ELSE
                        LET decryptedPayload == aesCbcDecrypt(encryptedPayload, s.tcpKey)
                        IN IF sha256(header \o decryptedPayload) # sign
                           THEN IF Len(decryptedPayload) = 5 /\ decryptedPayload = ERROR
                                THEN decodeLoop(s, Append(packets, ERROR), remaining)
                                ELSE DecodeThrow(s)
                           ELSE DecodeCount(s, packets, remaining,
                                  IF padding > 0 THEN DropLast(decryptedPayload, padding)
                                  ELSE decryptedPayload)
            ELSE DecodeCount(s, packets, remaining, payload)

decode8370(s, data) == decodeLoop(s, <<>>, data)

(***************************************************************************)
(* The MideaDevice object.  The socket is the one this._socket refers to:  *)
(* "null" is this._socket === null, "destroyed" an object whose destroyed  *)
(* flag is set.  listeners are the 'data' listeners of that socket in the  *)
(* order of their registration.  loops are the activations of _run, each   *)
(* with the promise chain of the connect() call it awaits.  out describes  *)
(* what the last callback did: frames written, observer calls.             *)
(***************************************************************************)
LoopIds == 1..MaxLoops
Addresses == {"a", "b"}

\* this._key, this._token (hex-decoded configuration): a key of the
\* cipher's length, or one of the length of the session key
Key16 == [i \in 1..16 |-> (3 * i) % 256]
Key32 == [i \in 1..32 |-> (3 * i) % 256]
Keys == {Key16, Key32}
Token == [i \in 1..64 |-> i]

\* what one callback did: the frames written and the request count they
\* started from (base), the observer calls (notes), the frames decoded, ...
NoOut == [op |-> "init", who |-> 0, base |-> 0, emitted |-> 0, keyed |-> FALSE,
          notes |-> <<>>, decoded |-> <<>>, success |-> FALSE, closed |-> FALSE,
          hbTimeout |-> {}, authFailed |-> FALSE, handshakeSent |-> FALSE,
          threw |-> FALSE, sent |-> <<>>, chunk |-> <<>>, caught |-> FALSE,
          processed |-> <<>>, refreshFailed |-> FALSE, skipped |-> FALSE, atFailure |-> 0,
          written |-> <<>>, timedOut |-> FALSE]

\* an activation of _run: where it is suspended (pc), its timeoutCounter,
\* and the connect() call it awaits: what that call waits for (phase), the
\* refreshStatus loop in it (cmds, q, errorCount), and whether its promise
\* is settled already.  idle counts the ticks since a chunk last parsed.
NewLoop == [pc |-> "idle", timeoutCounter |-> 0, idle |-> 0,
            phase |-> "none", q |-> 0, errorCount |-> 0, cmds |-> <<>>, settled |-> FALSE]

\* buildQuery() of the device classes
buildQuery == <<>>

\* the constructor
NewDevice(protocol, key) ==
  [protocol |-> protocol, key |-> key, isRunning |-> FALSE, available |-> TRUE,
   applianceQuery |-> TRUE, queries |-> buildQuery, protocolVersion |-> 0, ipAddress |-> "a", unsupportedProtocol |-> {},
   buffer |-> <<>>, security |-> NewSecurity,
   socket |-> "null", sockOwner |-> 0, sockAddress |-> "none", handshaken |-> FALSE, listeners |-> <<>>,
   sockTimeout |-> 0, peerMid |-> FALSE, halted |-> "no", wire |-> -1,
   loops |-> [l \in LoopIds |-> NewLoop], out |-> NoOut]

SocketAlive(dd) == dd.socket = "connecting" \/ dd.socket = "open"

\* what a callback starts from: nothing written, nobody notified yet
Begin(dd, op) ==
  [dd EXCEPT !.out = [NoOut EXCEPT !.op = op, !.base = dd.security.requestCount]]

\* updateAll(status): every registered observer is called with status
updateAll(dd, status) == [dd EXCEPT !.out.notes = Append(@, status)]

enableDevice(dd, available) ==
  updateAll([dd EXCEPT !.available = available], [available |-> available])

closeSocket(dd) ==
  [dd EXCEPT !.unsupportedProtocol = {}, !.buffer = <<>>,
             !.socket = "null", !.sockAddress = "none", !.listeners = <<>>,
             !.peerMid = FALSE, !.out.closed = TRUE]

\* socket.destroy() on the object this._socket refers to
DestroySocket(dd) ==
  [dd EXCEPT !.socket = IF @ = "null" THEN "null" ELSE "destroyed",
             !.listeners = <<>>, !.peerMid = FALSE]

(***************************************************************************)
(* Sending.  A result is [d, err]: the device afterwards and whether the   *)
(* call threw.                                                             *)
(***************************************************************************)
sendMessageV2(dd, data) ==
  IF SocketAlive(dd)
  THEN [dd EXCEPT !.out.emitted = @ + 1, !.out.written = Append(@, data)]
  ELSE dd

\* an 8370 frame goes to the socket: wire is the request count that the
\* last frame written since the last handshake carried (-1: none yet), and
\* out.sent lists the frames of this callback, each with the wire before it
WriteFrame(dd, count) ==
  [dd EXCEPT !.wire = count, !.out.sent = Append(@, <<dd.wire, count>>)]

\* sendMessageV3 once encode8370 has returned or thrown (r)
SendEncoded(dd, r) ==
  IF r.err THEN [d |-> [dd EXCEPT !.security = r.sec], err |-> TRUE]
  ELSE IF SocketAlive(dd)
  THEN [d |-> WriteFrame(sendMessageV2([dd EXCEPT !.security = r.sec], r.out),
                         dd.security.requestCount),
        err |-> FALSE]
  ELSE [d |-> sendMessageV2([dd EXCEPT !.security = r.sec], r.out), err |-> FALSE]

sendMessageV3(dd, data, msgType) ==
  SendEncoded(dd, encode8370(dd.security, data, msgType, 0))

\* sendMessage with the bug of framing whatever the protocol is
sendMessageFramed(dd, data) == sendMessageV3(dd, data, MSGTYPE_ENCRYPTED_REQUEST)

sendMessage(dd, data) ==
  IF dd.protocol = 3 THEN sendMessageV3(dd, data, MSGTYPE_ENCRYPTED_REQUEST)
  ELSE [d |-> sendMessageV2(dd, data), err |-> FALSE]

\* cmd.serialize(): the body bytes of a command
Serialize(cmd) ==
  IF cmd = "MessageQueryAppliance" THEN <<160>>
  ELSE IF cmd = "heartbeat" THEN <<0>>
  ELSE <<2>>

\* new PacketBuilder(deviceId, data).finalize(): the 5A5A packet around data
Packet(cmd) == <<90, 90>> \o Serialize(cmd)

buildSend(dd, cmd) == sendMessage(dd, Packet(cmd))

\* sendCommand(cmdType, cmdBody): what buildSend throws is caught and logged
sendCommand(dd) == [d |-> buildSend(dd, "MessageQuestCustom").d, err |-> FALSE]

sendHeartbeat(dd) == sendMessage(dd, Packet("heartbeat"))

\* the command list of refreshStatus
RefreshCmds(dd) ==
  IF dd.applianceQuery THEN <<"MessageQueryAppliance">> \o dd.queries ELSE dd.queries

(***************************************************************************)
(* Receiving                                                               *)
(***************************************************************************)
\* MideaDevice.fetchV2Message(msg): the while loop.  hang: the loop does not
\* end (an alleged length of 0 slices nothing off, forever).
RECURSIVE fetchV2Loop(_, _)
fetchV2Loop(result, remainingMsg) ==
  IF Len(remainingMsg) < 6 THEN [packets |-> result, rest |-> remainingMsg, hang |-> FALSE]
  ELSE LET allegedMsgLen == remainingMsg[5] + remainingMsg[6] * 256
       IN IF Len(remainingMsg) >= allegedMsgLen
          THEN IF allegedMsgLen = 0
               THEN [packets |-> result, rest |-> remainingMsg, hang |-> TRUE]
               ELSE fetchV2Loop(Append(result, Slice(remainingMsg, 0, allegedMsgLen)),
                                Slice(remainingMsg, allegedMsgLen, Len(remainingMsg)))
          ELSE [packets |-> result, rest |-> remainingMsg, hang |-> FALSE]

fetchV2Message(msg) == fetchV2Loop(<<>>, msg)

(***************************************************************************)
(* The inner packet: bytes 40 to 16 before its end are the appliance       *)
(* message, enciphered with AES-128-ECB under a key built in.  The cipher  *)
(* of this model shifts byte i of a block by byte i of the key.            *)
(***************************************************************************)
aesKey == <<197, 117, 17, 95, 29, 124, 67, 81, 152, 135, 106, 100, 52, 17, 122, 134>>

EcbShift(raw, sign) ==
  [i \in 1..Len(raw) |-> (raw[i] + sign * aesKey[((i - 1) % BlockSize) + 1] + 256) % 256]

\* a padding that adds nothing to a whole number of blocks
padPartial(buffer, blockSize) ==
  LET padding == (blockSize - (Len(buffer) % blockSize)) % blockSize
  IN buffer \o [i \in 1..padding |-> padding]

pkcs7Pad(buffer, blockSize) ==
  LET padding == blockSize - (Len(buffer) % blockSize)
  IN buffer \o [i \in 1..padding |-> padding]

pkcs7Unpad(buffer) ==
  LET n == Len(buffer)
  IN IF n = 0 THEN <<>>
     ELSE IF buffer[n] < 1 \/ buffer[n] > n THEN buffer
     ELSE IF \E i \in (n - buffer[n] + 1)..n : buffer[i] # buffer[n] THEN buffer
     ELSE SubSeq(buffer, 1, n - buffer[n])

aesEncrypt(raw) == EcbShift(pkcs7Pad(raw, BlockSize), 1)

\* decipher.final() throws on a length that is no multiple of the block
\* size; the catch block returns an empty buffer
aesDecrypt(raw) ==
  IF Len(raw) % BlockSize # 0 THEN <<>> ELSE pkcs7Unpad(EcbShift(raw, -1))

\* preProcessMessage(msg): the reply to the appliance query is kept from
\* processMessage, and no appliance query is sent from then on
preProcessMessage(dd, msg) ==
  IF Len(msg) >= 10 /\ msg[10] = QUERY_APPLIANCE
  THEN IF Len(msg) < 11
       THEN \* new MessageApplianceResponse(msg) throws MessageLenError
            [d |-> dd, cont |-> FALSE, threw |-> TRUE]
       ELSE IF Len(msg) = 11
       THEN \* no body: bodyType is undefined, and the debug line throws on it
            [d |-> [dd EXCEPT !.applianceQuery = FALSE], cont |-> FALSE, threw |-> TRUE]
       ELSE [d |-> [dd EXCEPT !.applianceQuery = FALSE, !.protocolVersion = msg[9]],
             cont |-> FALSE, threw |-> FALSE]
  ELSE [d |-> dd, cont |-> TRUE, threw |-> FALSE]

\* processMessage(msg) of the device class (the fan): the status as the
\* set of its entries, booleans as 0 and 1
processMessage(msg) ==
  IF Len(msg) < 10 \/ msg[10] # NOTIFY1 THEN {}
  ELSE (IF Len(msg) > 11 THEN {<<"power", msg[12] % 2>>} ELSE {})
       \cup (IF Len(msg) > 12 /\ msg[13] % 4 \in 1..3 THEN {<<"mode", msg[13] % 4>>} ELSE {})
       \cup (IF Len(msg) > 13 /\ msg[14] % 8 \in 1..4 THEN {<<"fan_speed", msg[14] % 8>>}
             ELSE {})
       \cup (IF Len(msg) > 14 THEN {<<"oscillation", msg[15] % 4>>} ELSE {})
       \cup (IF Len(msg) > 15 THEN {<<"timer_hours", msg[16]>>} ELSE {})
       \cup (IF Len(msg) > 16 THEN {<<"child_lock", msg[17] % 2>>} ELSE {})

\* parseMessage: what is done with the deciphered appliance message
\* (threw: the catch block, which itself throws on its reference to decrypted)
ProcessDecrypted(dd, decrypted) ==
  LET pre == IF dd.applianceQuery THEN preProcessMessage(dd, decrypted)
             ELSE [d |-> dd, cont |-> TRUE, threw |-> FALSE]
      status == processMessage(decrypted)
      d1 == [pre.d EXCEPT !.out.processed = Append(@, decrypted)]
  IN IF pre.threw THEN [d |-> pre.d, threw |-> TRUE]
     ELSE IF ~pre.cont THEN [d |-> pre.d, threw |-> FALSE]
     ELSE IF status # {} THEN [d |-> updateAll(d1, [status |-> status]), threw |-> FALSE]
     ELSE [d |-> d1, threw |-> FALSE]

\* the for loop of parseMessage once a message has been processed (r)
RECURSIVE ParseMessages(_, _, _)
ParseProcessed(r, messages, i) ==
  IF r.threw THEN [d |-> r.d, result |-> "THROW"] ELSE ParseMessages(r.d, messages, i + 1)

\* the for loop of parseMessage over the decoded messages, from message i
ParseMessages(dd, messages, i) ==
  IF i > Len(messages) THEN [d |-> dd, result |-> "SUCCESS"]
  ELSE
    LET message == messages[i]
        \* -1 is NaN: message[2] is undefined; undefined << 8 is 0
        payloadType == IF Len(message) < 3 THEN -1
                       ELSE message[3] + (IF Len(message) >= 4 THEN message[4] * 256 ELSE 0)
        payloadLen == IF Len(message) >= 6 THEN message[5] + message[6] * 256 - 56 ELSE -1
    IN IF message = ERROR THEN [d |-> dd, result |-> "ERROR"]
       ELSE IF payloadType = 4097 \/ payloadType = 1
       THEN ParseMessages(dd, messages, i + 1)
       ELSE IF Len(message) > 56 /\ payloadLen % 16 = 0
       THEN ParseProcessed(ProcessDecrypted(dd, aesDecrypt(Slice(message, 40,
                                                                  Len(message) - 16))),
                           messages, i)
       ELSE ParseMessages(dd, messages, i + 1)

(***************************************************************************)
(* parseMessage(msg).  result "THROW": the call threw, and _buffer is what *)
(* it was, since the assignment of the decoder's result did not happen.    *)
(***************************************************************************)
\* parseMessage from the assignment of what decode8370 returned (r)
ParseDecoded(dd, r) ==
  IF r.err THEN [d |-> [dd EXCEPT !.security = r.sec], result |-> "THROW"]
  ELSE IF Len(r.packets) = 0
  THEN [d |-> [dd EXCEPT !.security = r.sec, !.buffer = r.rest], result |-> "PADDING"]
  ELSE ParseMessages([dd EXCEPT !.security = r.sec, !.buffer = r.rest,
                                !.out.decoded = @ \o r.packets], r.packets, 1)

\* parseMessage from the assignment of what fetchV2Message returned (r)
ParseFetched(dd, r) ==
  IF r.hang THEN [d |-> [dd EXCEPT !.halted = "fetch"], result |-> "THROW"]
  ELSE IF Len(r.packets) = 0
  THEN [d |-> [dd EXCEPT !.buffer = r.rest], result |-> "PADDING"]
  ELSE ParseMessages([dd EXCEPT !.buffer = r.rest, !.out.decoded = @ \o r.packets],
                     r.packets, 1)

parseMessage(dd, msg) ==
  IF dd.protocol = 3
  THEN ParseDecoded(dd, decode8370(dd.security, dd.buffer \o msg))
  ELSE ParseFetched(dd, fetchV2Message(dd.buffer \o msg))

(***************************************************************************)
(* _run, and the connect() call it awaits.  Each operator is the code from *)
(* one point up to the next await that suspends.                           *)
(***************************************************************************)
\* connect(): this._socket = new net.Socket(); setTimeout(10000); connect(...)
StartConnect(dd, l) ==
  [dd EXCEPT !.socket = "connecting", !.sockOwner = l, !.sockAddress = dd.ipAddress,
             !.handshaken = FALSE,
             !.listeners = <<>>, !.sockTimeout = 10000, !.peerMid = FALSE,
             !.loops[l] = [@ EXCEPT !.pc = "connect", !.phase = "tcp", !.settled = FALSE,
                                    !.q = 0, !.errorCount = 0, !.cmds = <<>>]]

\* _run from "let timeoutCounter = 0" to the first await of the main loop.
\* A socket that is there but destroyed lets neither inner loop run: the
\* outer loop goes round without ever suspending.
ReadySetup(dd, l) ==
  LET d1 == [dd EXCEPT !.sockTimeout = 1000, !.listeners = Append(@, <<"run", l>>),
                       !.loops[l].timeoutCounter = 0, !.loops[l].idle = 0]
  IN IF SocketAlive(d1) /\ d1.isRunning THEN [d1 EXCEPT !.loops[l].pc = "tick"]
     ELSE IF ~d1.isRunning THEN [d1 EXCEPT !.loops[l].pc = "done"]
     ELSE [d1 EXCEPT !.loops[l].pc = "spin", !.halted = "spin"]

\* the test of "while (!this._socket)" and what follows it
RunResume(dd, l) ==
  IF dd.socket = "null" THEN StartConnect(dd, l) ELSE ReadySetup(dd, l)

\* the test of "while (this._isRunning)" and what follows it
OuterTop(dd, l) ==
  IF ~dd.isRunning THEN [dd EXCEPT !.loops[l].pc = "done"] ELSE RunResume(dd, l)

\* the catch block of _run with the bug of giving up after a failed connect
RunCatchGivesUp(dd, l) == [dd EXCEPT !.loops[l].pc = "done"]

\* the catch block of _run
RunCatch(dd, l) ==
  IF ~dd.isRunning THEN [dd EXCEPT !.loops[l].pc = "done"]
  ELSE [closeSocket(dd) EXCEPT !.loops[l].pc = "backoff"]

\* resolve(true) / reject(error) of the promise connect() returned: a
\* settled promise stays as it is, a pending one resumes _run
Resolve(dd, l) ==
  IF dd.loops[l].settled THEN dd
  ELSE RunResume([dd EXCEPT !.loops[l].settled = TRUE], l)

Reject(dd, l) ==
  IF dd.loops[l].settled THEN dd
  ELSE RunCatch([dd EXCEPT !.loops[l].settled = TRUE], l)

\* the end of the connect callback: enableDevice(true); resolve(true)
ConnectDone(dd, l) ==
  Resolve(enableDevice([dd EXCEPT !.loops[l].phase = "none"], TRUE), l)

\* the catch block of the connect callback
ConnectCatch(dd, l) ==
  Reject(enableDevice([dd EXCEPT !.loops[l].phase = "none"], FALSE), l)

(***************************************************************************)
(* refreshStatus(true) of the connect() call of loop l, from command q on  *)
(* with errorCount ec, up to the next await of a response.                 *)
(***************************************************************************)
\* throw new RefreshFailed(): refreshStatus ends with errorCount equal to the
\* number of its commands.  skipped: every command was in the unsupported
\* set; atFailure: the frames written in this callback up to the throw.
RefreshFailed(dd, cmds) ==
  [dd EXCEPT !.out.refreshFailed = TRUE,
             !.out.skipped = \A q \in 1..Len(cmds) : cmds[q] \in dd.unsupportedProtocol,
             !.out.atFailure = Len(dd.out.sent)]

RECURSIVE RefreshFrom(_, _, _, _)
\* command q once buildSend has returned or thrown (r)
RefreshSent(r, l, q, ec) ==
  IF r.err THEN ConnectCatch(r.d, l)
  ELSE IF r.d.socket = "null"
  THEN \* this._socket.on throws in the executor, which rejects the promise
       RefreshFrom(r.d, l, q + 1, ec + 1)
  ELSE [r.d EXCEPT !.listeners = Append(@, <<"wait", l, q>>),
                   !.loops[l].phase = "wait", !.loops[l].q = q,
                   !.loops[l].errorCount = ec]

RefreshFrom(dd, l, q, ec) ==
  IF q > Len(dd.loops[l].cmds)
  THEN IF ec = Len(dd.loops[l].cmds)
       THEN ConnectCatch(RefreshFailed(dd, dd.loops[l].cmds), l)
       ELSE ConnectDone(dd, l)
  ELSE IF dd.loops[l].cmds[q] \in dd.unsupportedProtocol
  THEN RefreshFrom(dd, l, q + 1, ec + 1)
  ELSE RefreshSent(buildSend(dd, dd.loops[l].cmds[q]), l, q, ec)

\* refreshStatus(true) from its start
RefreshStart(dd, l) ==
  RefreshFrom([dd EXCEPT !.loops[l].cmds = RefreshCmds(dd)], l, 1, 0)

\* refreshStatus() of the main loop, which waits for no response; an
\* exception ends it and is caught by the loop
RECURSIVE RefreshNoWait(_, _, _, _)
RefreshNoWaitSent(r, cmds, q, ec) ==
  IF r.err THEN r.d ELSE RefreshNoWait(r.d, cmds, q + 1, ec)

RefreshNoWait(dd, cmds, q, ec) ==
  IF q > Len(cmds) THEN (IF ec = Len(cmds) THEN RefreshFailed(dd, cmds) ELSE dd)
  ELSE IF cmds[q] \in dd.unsupportedProtocol THEN RefreshNoWait(dd, cmds, q + 1, ec + 1)
  ELSE RefreshNoWaitSent(buildSend(dd, cmds[q]), cmds, q, ec)

(***************************************************************************)
(* The 'data' listeners.  A listener returns the device and the promise    *)
(* continuation it has scheduled, if any; the continuations run when every *)
(* listener of the event has returned.                                     *)
(***************************************************************************)
RemoveListener(dd, lis) == [dd EXCEPT !.listeners = SelectSeq(@, LAMBDA x : x # lis)]

\* authenticate(): the once('data') listener
AuthRejected(dd, l) ==
  [d |-> [dd EXCEPT !.out.authFailed = TRUE],
   cont |-> <<"authFail", l>>]

\* the listener once tcpKey has returned or thrown (r)
OnceKeyed(dd, l, r) ==
  IF r.err THEN AuthRejected(dd, l)
  ELSE [d |-> [dd EXCEPT !.security = r.sec, !.handshaken = SocketAlive(dd), !.wire = -1,
                         !.out.keyed = TRUE, !.out.base = 0, !.out.emitted = 0],
        cont |-> <<"authOk", l>>]

OnceHandler(dd, l, response) ==
  IF Len(response) < MinHandshakeChunk
  THEN AuthRejected(RemoveListener(dd, <<"once", l>>), l)
  ELSE OnceKeyed(RemoveListener(dd, <<"once", l>>), l,
                 tcpKey(dd.security, Slice(response, 8, 72), dd.key))

\* refreshStatus(true): dataHandler of command q.  Its promise is pending
\* while the loop of the call is at this command; later the listener is
\* still there, and resolve and reject do nothing.  With this._socket null
\* removeListener throws, in the catch block too: out of the listener.
WaitParsed(r, l, q, pending) ==
  LET d1 == r.d
      d2 == RemoveListener(d1, <<"wait", l, q>>)
  IN IF r.result = "PADDING" \/ r.d.halted # "no" THEN [d |-> d1, cont |-> <<>>]
     ELSE IF r.d.socket = "null" THEN [d |-> [d1 EXCEPT !.halted = "crash"], cont |-> <<>>]
     ELSE IF ~pending THEN [d |-> d2, cont |-> <<>>]
     ELSE [d |-> [d2 EXCEPT !.loops[l].phase = "resume"],
           cont |-> <<IF r.result = "SUCCESS" THEN "waitOk" ELSE "waitErr", l>>]

WaitHandler(dd, l, q, data) ==
  WaitParsed(parseMessage(dd, data), l, q,
             dd.loops[l].phase = "wait" /\ dd.loops[l].q = q)

\* the listener with the bug of keeping the socket when parseMessage throws
RunParsedKeepsSocket(r, l) ==
  IF r.d.halted # "no" THEN r.d
  ELSE IF r.result = "ERROR" THEN closeSocket(r.d)
  ELSE IF r.result = "THROW" THEN [r.d EXCEPT !.out.caught = TRUE]
  ELSE IF r.result = "SUCCESS"
  THEN [r.d EXCEPT !.loops[l].timeoutCounter = 0, !.out.success = TRUE]
  ELSE r.d

\* _run: the 'data' listener of the main loop
RunParsed(r, l) ==
  IF r.d.halted # "no" THEN r.d
  ELSE IF r.result = "ERROR" THEN closeSocket(r.d)
  ELSE IF r.result = "THROW" THEN closeSocket([r.d EXCEPT !.out.caught = TRUE])
  ELSE IF r.result = "SUCCESS"
  THEN [r.d EXCEPT !.loops[l].timeoutCounter = 0, !.out.success = TRUE]
  ELSE r.d

RunHandler(dd, l, data) ==
  IF Len(data) = 0 THEN closeSocket([dd EXCEPT !.out.caught = TRUE])
  ELSE RunParsed(parseMessage(dd, data), l)

Listener(dd, lis, data) ==
  IF dd.halted # "no" THEN [d |-> dd, cont |-> <<>>]
  ELSE IF lis[1] = "once" THEN OnceHandler(dd, lis[2], data)
  ELSE IF lis[1] = "wait" THEN WaitHandler(dd, lis[2], lis[3], data)
  ELSE [d |-> RunHandler(dd, lis[2], data), cont |-> <<>>]

\* what follows the await a listener has settled
Continue(dd, c) ==
  LET l == c[2]
      t == dd.loops[l]
  IN IF dd.halted # "no" THEN dd
     ELSE IF c[1] = "authOk" THEN RefreshStart(dd, l)
     ELSE IF c[1] = "authFail" THEN ConnectCatch(dd, l)
     ELSE IF c[1] = "waitOk" THEN RefreshFrom(dd, l, t.q + 1, t.errorCount)
     ELSE RefreshFrom(dd, l, t.q + 1, t.errorCount + 1)

RECURSIVE Continuations(_, _, _)
Continuations(dd, conts, i) ==
  IF i > Len(conts) THEN dd ELSE Continuations(Continue(dd, conts[i]), conts, i + 1)

\* socket.emit('data', data): the listeners registered when the event is
\* emitted are called in the order of their registration
RECURSIVE Emit(_, _, _, _, _)
EmitNext(r, snapshot, i, data, conts) ==
  Emit(r.d, snapshot, i + 1, data, IF r.cont = <<>> THEN conts ELSE Append(conts, r.cont))

Emit(dd, snapshot, i, data, conts) ==
  IF i > Len(snapshot) THEN Continuations(dd, conts, 1)
  ELSE EmitNext(Listener(dd, snapshot[i], data), snapshot, i, data, conts)

(***************************************************************************)
(* What the peer sends.  The appliance holds the same key: its reply to    *)
(* the handshake is an 8-byte header, the 32-byte plain enciphered with    *)
(* its own cipher under that key, and the digest of the plain.             *)
(***************************************************************************)
HsPlain == [i \in 1..32 |-> (5 * i + 1) % 256]
HsPlainB == [i \in 1..32 |-> (11 * i) % 256]
HsBody(plain, key) == aesCbcEncrypt(plain, key) \o sha256(plain)
BadSignBody(key) == [HsBody(HsPlain, key) EXCEPT ![64] = (@ + 1) % 256]
HsHeader == <<131, 112, 0, 64, 32, 1, 0, 0>>
SessionKey == bufferXOR(HsPlain, Key16)

(***************************************************************************)
(* Codec runs: encode8370, decode8370 and tcpKey of one LocalSecurity      *)
(* object, called with inputs from bounded sets.  The object starts as it  *)
(* is after c handshake requests, made since its construction or since a   *)
(* handshake under the key of the cipher's length.                         *)
(***************************************************************************)
CounterStarts == {0, 1, 255, 256, 65533, 65534}
PayloadLens == (0..MaxPayload) \cup {BlockSize - 2 + k : k \in 0..MaxPayload}
Payloads == {[i \in 1..n |-> (7 * i) % 256] : n \in PayloadLens} \cup {ERROR}
HsResponses(key) ==
  {HsBody(HsPlain, key), HsBody(HsPlainB, key), BadSignBody(key),
   Slice(HsBody(HsPlain, key), 0, 63), HsBody(HsPlain, key) \o <<0>>, ERROR, <<>>}

NoCx == [op |-> "none", tickFrom |-> 0, tickCap |-> 0, overlapCap |-> 0, overlaps |-> 0, encodes |-> 0, issued |-> -1,
         enc |-> <<>>, dec |-> <<>>, hs |-> <<>>,
         stream |-> <<>>, fed |-> 0, frames |-> <<>>, puts |-> 0,
         injected |-> FALSE, threw |-> FALSE]

CodecInit ==
  \E c \in CounterStarts, key \in Keys, keyed \in BOOLEAN :
    /\ keyed => key = Key16
    /\ d = [NewDevice(3, key) EXCEPT
              !.security = [tcpKey |-> IF keyed THEN SessionKey ELSE NoKey,
                            requestCount |-> c, responseCount |-> 0]]
    /\ cx = [NoCx EXCEPT !.op = "init", !.issued = c]

\* security.tcpKey(response, this._key)
CodecTcpKey(response) ==
  LET r == tcpKey(d.security, response, d.key)
  IN /\ d' = [Begin(d, "tcpKey") EXCEPT !.security = r.sec]
     /\ cx' = [cx EXCEPT !.op = "tcpKey", !.enc = <<>>, !.dec = <<>>,
                         !.hs = [response |-> response, before |-> d.security, err |-> r.err],
                         !.issued = IF r.err THEN @ ELSE 0]

\* security.encode8370(payload, msgType)
CodecEncode(payload, msgType, rnd) ==
  LET r == encode8370(d.security, payload, msgType, rnd)
  IN /\ cx.encodes < MaxEncodes
     /\ d' = [Begin(d, "encode") EXCEPT !.security = r.sec]
     /\ cx' = [cx EXCEPT !.op = "encode", !.encodes = @ + 1, !.hs = <<>>, !.dec = <<>>,
                         !.enc = [payload |-> payload, msgType |-> msgType,
                                  count |-> d.security.requestCount,
                                  keyed |-> d.security.tcpKey # NoKey,
                                  err |-> r.err, out |-> r.out],
                         !.issued = IF r.err THEN @ ELSE @ + 1]

\* security.decode8370 of the frame the last call of encode8370 returned
CodecDecode ==
  /\ cx.op = "encode"
  /\ ~cx.enc.err
  /\ LET r == decode8370(d.security, cx.enc.out)
     IN /\ d' = [Begin(d, "decode") EXCEPT !.security = r.sec]
        /\ cx' = [cx EXCEPT !.op = "decode",
                            !.dec = [packets |-> r.packets, rest |-> r.rest, err |-> r.err,
                                     before |-> d.security]]

CodecNext ==
  \/ \E response \in HsResponses(d.key) : CodecTcpKey(response)
  \/ \E payload \in Payloads, rnd \in {0, 255} :
       CodecEncode(payload, MSGTYPE_ENCRYPTED_REQUEST, rnd)
  \/ CodecEncode(Token, MSGTYPE_HANDSHAKE_REQUEST, 0)
  \/ CodecDecode

SpecCodec == CodecInit /\ [][CodecNext]_vars

(***************************************************************************)
(* Stream runs: the peer puts frames on the stream, frames that need no    *)
(* cipher, possibly followed by the first bytes of one more frame or by    *)
(* bytes that are no frame; the stream reaches parseMessage in chunks.     *)
(***************************************************************************)
Garbage == <<0, 0, 0, 0, 0, 0>>
StreamPayloads == {p \in Payloads : Len(p) <= MaxPayload} \cup {ERROR}

PeerFrame(count, payload) ==
  encode8370([NewSecurity EXCEPT !.requestCount = count],
             payload, MSGTYPE_HANDSHAKE_RESPONSE, 0).out

\* a frame of the appliance that holds the session key: the counter and the
\* payload, padded to whole blocks, enciphered with the appliance's cipher
\* under that key, and the digest of header and plain
PeerPadding(payload) == (BlockSize - ((Len(payload) + 2) % BlockSize)) % BlockSize
PeerPlain(count, payload) ==
  <<count \div 256, count % 256>> \o payload \o [i \in 1..PeerPadding(payload) |-> 0]
PeerHeader(payload) ==
  LET size == Len(PeerPlain(0, payload)) + SignLen - 2
  IN <<131, 112, size \div 256, size % 256, 32,
       PeerPadding(payload) * 16 + MSGTYPE_ENCRYPTED_RESPONSE>>
PeerEncryptedFrame(count, payload) ==
  PeerHeader(payload) \o CbcChain(PeerPlain(count, payload), SessionKey, <<>>)
                     \o sha256(PeerHeader(payload) \o PeerPlain(count, payload))
EncErrFrame == PeerEncryptedFrame(0, ERROR)
\* an enciphered frame whose digest is not that of its header and plain
BadSignFrame ==
  [PeerEncryptedFrame(0, <<1, 2, 3>>) EXCEPT ![Len(PeerEncryptedFrame(0, <<1, 2, 3>>))] = (@ + 1) % 256]

StreamInit ==
  /\ d = [NewDevice(3, Key16) EXCEPT !.security.tcpKey = SessionKey]
  /\ cx = [NoCx EXCEPT !.op = "init"]

StreamPut(payload) ==
  /\ cx.fed = 0 /\ ~cx.injected /\ cx.puts < MaxFrames
  /\ cx' = [cx EXCEPT !.op = "put", !.puts = @ + 1,
                      !.stream = @ \o PeerFrame(cx.puts, payload)]
  /\ d' = d

\* the appliance answers with 'ERROR' in a frame enciphered under the
\* session key
StreamPutEncrypted ==
  /\ cx.fed = 0 /\ ~cx.injected /\ cx.puts < MaxFrames
  /\ cx' = [cx EXCEPT !.op = "put", !.puts = @ + 1,
                      !.stream = @ \o PeerEncryptedFrame(cx.puts, ERROR)]
  /\ d' = d

StreamPutHead(payload) ==
  /\ cx.fed = 0 /\ ~cx.injected
  /\ cx' = [cx EXCEPT !.op = "put", !.injected = TRUE,
                      !.stream = @ \o Slice(PeerFrame(cx.puts, payload), 0, HeadLen)]
  /\ d' = d

StreamPutGarbage ==
  /\ cx.fed = 0 /\ ~cx.injected
  /\ cx' = [cx EXCEPT !.op = "put", !.injected = TRUE, !.stream = @ \o Garbage]
  /\ d' = d

\* the socket's 'data' event with the next n bytes, in the main loop's
\* listener, until the listener drops the connection
StreamFeed(n) ==
  /\ cx.fed + n <= Len(cx.stream)
  /\ ~cx.threw
  /\ d' = RunHandler(Begin(d, "feed"), 1, Slice(cx.stream, cx.fed, cx.fed + n))
  /\ cx' = [cx EXCEPT !.op = "feed", !.fed = @ + n,
                      !.frames = @ \o d'.out.decoded,
                      !.threw = d'.out.closed]

StreamNext ==
  \/ \E payload \in StreamPayloads : StreamPut(payload)
  \/ \E payload \in StreamPayloads : StreamPutHead(payload)
  \/ StreamPutGarbage
  \/ StreamPutEncrypted
  \/ \E n \in {1, Len(cx.stream) - cx.fed} : StreamFeed(n)

SpecStream == StreamInit /\ [][StreamNext]_vars

(***************************************************************************)
(* The session.  The chunks a peer sends: the reply to the handshake       *)
(* (whole, with a wrong digest, or cut short) while the handshake waits    *)
(* for it, and else a message (an 8370 frame that needs no cipher, or a    *)
(* protocol 2 message) whole or in two chunks, a frame carrying 'ERROR',   *)
(* or bytes that are no message.                                           *)
(***************************************************************************)
HsReply(key) == HsHeader \o HsBody(HsPlain, key)
HsBadReply(key) == HsHeader \o BadSignBody(key)
HsShort == Slice(HsReply(Key16), 0, 10)
HsHead == Slice(HsReply(Key16), 0, 40)
Frame == PeerFrame(0, <<1, 2, 3>>)
FrameHead == Slice(Frame, 0, HeadLen)
FrameTail == Slice(Frame, HeadLen, Len(Frame))
ErrFrame == PeerFrame(0, ERROR)
V2Msg == <<90, 90, 17, 1, 10, 0, 7, 7, 7, 7>>
V2Head == Slice(V2Msg, 0, HeadLen)
V2Tail == Slice(V2Msg, HeadLen, Len(V2Msg))
\* a notification of the appliance's status (power off or on) in its inner
\* packet: 40 bytes of header, the enciphered message, 16 bytes of tag
\* with the checksum of the message as its last byte, and the tag of
\* encode32Data over all that precedes it
WithChecksum(stream) == Append(stream, checksum(Tail(stream)))
StatusBody(power) == WithChecksum(<<170, 13, 250, 0, 0, 0, 0, 0, 0, NOTIFY1, 0, power>>)
InnerPacket(message) ==
  LET body == aesEncrypt(message)
      length == 40 + Len(body) + TagLen
      head == <<90, 90, 17, 1, length % 256, length \div 256>> \o [i \in 1..34 |-> 0] \o body
  IN head \o encode32Data(head)
V2Status(power) == InnerPacket(StatusBody(power))
\* the reply to the appliance query: the version is byte 8 of its header
Versions == {1, 2}
ApplianceBody(version) ==
  WithChecksum(<<170, 13, 250, 0, 0, 0, 0, 0, version, QUERY_APPLIANCE, 0, 0>>)
ApplianceReply(version) == InnerPacket(ApplianceBody(version))
\* inner packets that fail a check of their integrity: no magic, a tag that
\* is not the digest, a message whose checksum byte is wrong
BadMagic == [V2Status(1) EXCEPT ![1] = 91]
BadTag == [V2Status(1) EXCEPT ![Len(V2Status(1))] = (@ + 1) % 256]
BadChecksum ==
  InnerPacket([StatusBody(1) EXCEPT ![Len(StatusBody(1))] = (@ + 1) % 256])
Corrupt == {BadMagic, BadTag, BadChecksum}

\* what the peer of a protocol 2 session sends
V2Chunks ==
  {V2Msg, V2Head, Garbage, V2Status(0), V2Status(1), V2Status(0) \o V2Status(1)}
    \cup Corrupt \cup {ApplianceReply(v) : v \in Versions}

Chunks(dd) ==
  IF \E i \in 1..Len(dd.listeners) : dd.listeners[i][1] = "once"
  THEN {HsReply(dd.key), HsBadReply(dd.key), HsShort, HsHead}
       \cup (IF \E i \in 1..Len(dd.listeners) : dd.listeners[i][1] = "run"
             THEN {Garbage, BadSignFrame} ELSE {})
  ELSE IF dd.protocol = 3
  THEN IF dd.peerMid THEN {FrameTail} ELSE {Frame, FrameHead, ErrFrame, Garbage}
  ELSE IF dd.peerMid THEN {V2Tail}
  ELSE V2Chunks

\* protocol and key of the configuration
Configs == {<<2, Key32>>, <<3, Key16>>, <<3, Key32>>}

\* the device as constructed.  A main loop is followed for MaxTicks ticks,
\* and open() is called again when the activations of _run it started
\* before are gone.
Init ==
  /\ \E c \in Configs : d = NewDevice(c[1], c[2])
  /\ cx = [NoCx EXCEPT !.tickFrom = MaxTicks, !.tickCap = MaxTicks]

\* a slot for a new activation of _run: one that has returned, or one whose
\* connect() can never settle because its socket was closed under it
Gone(dd, l) ==
  LET t == dd.loops[l]
  IN \/ t.pc \in {"idle", "done"} /\ t.phase = "none"
     \/ /\ t.pc = "connect" /\ t.phase \in {"tcp", "hsData"}
        /\ ~(SocketAlive(dd) /\ dd.sockOwner = l)

FreeLoop(dd) ==
  CHOOSE l \in LoopIds : Gone(dd, l) /\ \A k \in LoopIds : Gone(dd, k) => l <= k

\* open() would start an activation of _run beside one that is still there
Overlapping(dd) == ~dd.isRunning /\ \E l \in LoopIds : ~Gone(dd, l)

\* the request count is kept small: the user and the main loop send while it
\* is below MaxCount, and a handshake starts while it is at most MaxCount
CanSend(dd) == dd.security.requestCount < MaxCount
CanConnect(dd) == dd.security.requestCount <= MaxCount

\* open() with the bug of not testing _isRunning: _run is called again
openStartsAgain(dd) ==
  IF \E l \in LoopIds : Gone(dd, l)
  THEN LET l == FreeLoop(dd)
       IN OuterTop([dd EXCEPT !.isRunning = TRUE, !.out.who = l, !.loops[l] = NewLoop], l)
  ELSE dd

\* open(): nothing if the session is running, else _isRunning = true and
\* _run() up to its first await
open(dd) ==
  IF dd.isRunning THEN dd
  ELSE LET l == FreeLoop(dd)
       IN OuterTop([dd EXCEPT !.isRunning = TRUE, !.out.who = l, !.loops[l] = NewLoop], l)

Open ==
  /\ d.halted = "no"
  /\ d.isRunning \/ \E l \in LoopIds : Gone(d, l)
  /\ Overlapping(d) => cx.overlaps < cx.overlapCap
  /\ d' = open(Begin(d, "open"))
  /\ cx' = IF Overlapping(d) THEN [cx EXCEPT !.overlaps = @ + 1] ELSE cx

\* close()
close(dd) ==
  IF dd.isRunning THEN closeSocket([dd EXCEPT !.isRunning = FALSE]) ELSE dd

Close ==
  /\ d.halted = "no"
  /\ d' = IF d.isRunning THEN close(Begin(d, "close")) ELSE d
  /\ UNCHANGED cx

\* setIpAddress(ipAddress)
SetIp(ipAddress) ==
  /\ d.halted = "no"
  /\ d' = IF d.ipAddress # ipAddress
          THEN closeSocket([Begin(d, "setIpAddress") EXCEPT !.ipAddress = ipAddress])
          ELSE d
  /\ UNCHANGED cx

\* sendCommand(cmdType, cmdBody)
SendCommand ==
  /\ d.halted = "no"
  /\ CanSend(d)
  /\ d' = LET r == sendCommand(Begin(d, "sendCommand"))
          IN [r.d EXCEPT !.out.threw = r.err]
  /\ UNCHANGED cx

\* the callback of socket.connect: the connection is there.  Protocol 3
\* authenticates first: the handshake request is written, the reply awaited.
connectCallback(dd, l) ==
  LET d0 == [Begin(dd, "connected") EXCEPT !.socket = "open", !.out.who = l]
      r == encode8370(d0.security, Token, MSGTYPE_HANDSHAKE_REQUEST, 0)
  IN IF d0.protocol = 3
     THEN [WriteFrame(d0, d0.security.requestCount) EXCEPT
                     !.security = r.sec, !.out.emitted = @ + 1, !.out.handshakeSent = TRUE,
                     !.listeners = Append(@, <<"once", l>>), !.loops[l].phase = "hsData"]
     ELSE RefreshStart(d0, l)

TcpConnected(l) ==
  /\ d.halted = "no"
  /\ d.socket = "connecting" /\ d.sockOwner = l
  /\ d.loops[l].pc = "connect" /\ d.loops[l].phase = "tcp"
  /\ CanConnect(d)
  /\ d' = connectCallback(d, l)
  /\ UNCHANGED cx

\* the socket's 'data' event
\* a chunk that parsed ends the idle time
Parsed(dd) ==
  IF dd.out.success
  THEN [dd EXCEPT !.loops = [l \in LoopIds |-> [dd.loops[l] EXCEPT !.idle = 0]]]
  ELSE dd

onData(dd, data) ==
  Parsed(Emit([Begin(dd, "data") EXCEPT !.peerMid = (data \in {FrameHead, V2Head}),
                                        !.out.chunk = data],
              dd.listeners, 1, data, <<>>))

SocketData(data) ==
  /\ d.halted = "no"
  /\ d.socket = "open" /\ d.listeners # <<>>
  /\ Len(d.buffer) <= MaxBuffer
  /\ data \in Chunks(d)
  /\ d' = onData(d, data)
  /\ UNCHANGED cx

\* the socket fails: the 'error' or the 'timeout' listener of the connect()
\* call that made the socket
socketFails(dd) ==
  LET l == dd.sockOwner
      t == dd.loops[l]
      d1 == DestroySocket(enableDevice([Begin(dd, "socketFails") EXCEPT !.out.who = l], FALSE))
  IN IF t.pc = "connect" /\ t.phase # "none"
     THEN Reject([d1 EXCEPT !.loops[l].phase = IF t.phase = "wait" THEN "wait" ELSE "none"], l)
     ELSE d1

SocketError ==
  /\ d.halted = "no"
  /\ SocketAlive(d)
  /\ d' = socketFails(d)
  /\ UNCHANGED cx

\* 10 s without the connection coming up, or 1 s (set by _run) without traffic
SocketTimeout ==
  /\ d.halted = "no"
  /\ SocketAlive(d)
  /\ d' = [socketFails(d) EXCEPT !.out.timedOut = TRUE]
  /\ UNCHANGED cx

\* the peer ends the connection: the socket is destroyed, no listener of
\* the device is called
SocketEnd ==
  /\ d.halted = "no"
  /\ d.socket = "open"
  /\ d' = DestroySocket(Begin(d, "socketEnd"))
  /\ UNCHANGED cx

\* refreshStatus(true): the 5 s timer of the command waited for
waitTimer(dd, l) ==
  LET t == dd.loops[l]
  IN RefreshFrom([Begin(dd, "waitTimeout") EXCEPT
                     !.out.who = l, !.unsupportedProtocol = @ \cup {t.cmds[t.q]}],
                 l, t.q + 1, t.errorCount + 2)

WaitTimeout(l) ==
  /\ d.halted = "no"
  /\ d.loops[l].phase = "wait"
  /\ d' = waitTimer(d, l)
  /\ UNCHANGED cx

\* _run: the 5 s of the catch block are over
BackoffElapsed(l) ==
  /\ d.halted = "no"
  /\ d.loops[l].pc = "backoff" /\ d.loops[l].phase = "none"
  /\ d' = RunResume([Begin(d, "backoffElapsed") EXCEPT !.out.who = l], l)
  /\ UNCHANGED cx

\* _run: the 1 s of the main loop are over; timeoutCounter++ and the next
\* iteration, in which a refresh and a heartbeat may be due
\* the main loop's test of timeoutCounter, and what follows it
CheckTimeout(dd, l) ==
  IF dd.loops[l].timeoutCounter >= HeartbeatTimeoutTicks
  THEN OuterTop(closeSocket([dd EXCEPT !.out.hbTimeout = {l}]), l)
  ELSE dd

Heartbeat(dd, due) == IF due THEN sendHeartbeat(dd).d ELSE dd

Refresh(dd, due) == IF due THEN RefreshNoWait(dd, RefreshCmds(dd), 1, 0) ELSE dd

Iteration(dd, l, dueRefresh, dueHeartbeat) ==
  IF SocketAlive(dd) /\ dd.isRunning
  THEN CheckTimeout(Heartbeat(Refresh(dd, dueRefresh), dueHeartbeat), l)
  ELSE OuterTop(dd, l)

tick(dd, l, dueRefresh, dueHeartbeat) ==
  Iteration([Begin(dd, "tick") EXCEPT !.out.who = l, !.loops[l].timeoutCounter = @ + 1,
                                      !.loops[l].idle = @ + 1],
            l, dueRefresh, dueHeartbeat)

Tick(l, dueRefresh, dueHeartbeat) ==
  /\ d.halted = "no"
  /\ d.loops[l].pc = "tick"
  /\ \/ d.loops[l].timeoutCounter < MaxTicks
     \/ cx.tickFrom <= d.loops[l].timeoutCounter /\ d.loops[l].timeoutCounter < cx.tickCap
     \/ ~(SocketAlive(d) /\ d.isRunning)
  /\ (dueRefresh \/ dueHeartbeat) => CanSend(d)
  /\ d' = tick(d, l, dueRefresh, dueHeartbeat)
  /\ UNCHANGED cx

Next ==
  \/ Open
  \/ Close
  \/ \E a \in Addresses : SetIp(a)
  \/ SendCommand
  \/ \E l \in LoopIds : TcpConnected(l)
  \/ \E data \in Chunks(d) : SocketData(data)
  \/ SocketError
  \/ SocketTimeout
  \/ SocketEnd
  \/ \E l \in LoopIds : WaitTimeout(l)
  \/ \E l \in LoopIds : BackoffElapsed(l)
  \/ \E l \in LoopIds, dueRefresh, dueHeartbeat \in BOOLEAN :
       Tick(l, dueRefresh, dueHeartbeat)

Spec == Init /\ [][Next]_vars

(***************************************************************************)
(* A device class whose buildQuery() returns one query: refreshStatus has  *)
(* two commands while the appliance query is due.                          *)
(***************************************************************************)
RefreshInit ==
  /\ d = [NewDevice(2, Key32) EXCEPT !.queries = <<"MessageQuery">>]
  /\ cx = [NoCx EXCEPT !.tickFrom = MaxTicks, !.tickCap = MaxTicks]

SpecRefresh == RefreshInit /\ [][Next]_vars

(***************************************************************************)
(* The session in Ready, of protocol 2.  It starts where open(), the       *)
(* connection and the first refresh have led: the main loop waits for its  *)
(* next tick, and timeoutCounter is 0 or has come close to the heartbeat   *)
(* timeout.  open() is followed MaxOverlaps times while an activation of   *)
(* _run it started before is there, and a main loop up to the timeout.     *)
(***************************************************************************)
TickFrom == HeartbeatTimeoutTicks - LastTicks
TickStarts == {0, TickFrom}

Opened == open(NewDevice(2, Key32))
Ready == onData(connectCallback(Opened, 1), V2Msg)

ReadyInit ==
  /\ \E n \in TickStarts :
       d = [Begin(Ready, "init") EXCEPT !.loops[1].timeoutCounter = n, !.loops[1].idle = n]
  /\ cx = [NoCx EXCEPT !.tickFrom = TickFrom, !.tickCap = HeartbeatTimeoutTicks,
                       !.overlapCap = MaxOverlaps]

\* the user closes and opens the session, the peer accepts connections and
\* sends chunks, and the main loops tick; no socket fails and no timer of a
\* refresh or a backoff is needed
ReadyNext ==
  \/ Open
  \/ Close
  \/ \E l \in LoopIds : TcpConnected(l)
  \/ \E data \in Chunks(d) : SocketData(data)
  \/ \E l \in LoopIds, dueRefresh, dueHeartbeat \in BOOLEAN :
       Tick(l, dueRefresh, dueHeartbeat)

SpecReady == ReadyInit /\ [][ReadyNext]_vars

(***************************************************************************)
(* A main loop of protocol 3.  The first refresh of a protocol 3 session   *)
(* never completes, so a main loop with its 'data' listener exists only    *)
(* beside a second activation of _run: the first handshake is rejected and *)
(* loop 1 backs off; close() and open() start loop 2, which connects; the  *)
(* backoff of loop 1 ends, it finds _socket set and enters its main loop   *)
(* on the socket of loop 2, whose handshake is then on its way.            *)
(***************************************************************************)
Rejected == onData(connectCallback(open(NewDevice(3, Key16)), 1), HsShort)
Reopened == open(close(Rejected))
MainLoop3 == connectCallback(RunResume(Reopened, 1), 2)

MainLoop3Init ==
  /\ d = Begin(MainLoop3, "init")
  /\ cx = [NoCx EXCEPT !.tickFrom = MaxTicks, !.tickCap = MaxTicks]

\* the peer accepts connections and sends chunks, the backoffs end and the
\* main loops tick
MainLoop3Next ==
  \/ \E l \in LoopIds : TcpConnected(l)
  \/ \E data \in Chunks(d) : SocketData(data)
  \/ \E l \in LoopIds : BackoffElapsed(l)
  \/ \E l \in LoopIds, dueRefresh, dueHeartbeat \in BOOLEAN :
       Tick(l, dueRefresh, dueHeartbeat)

SpecMainLoop3 == MainLoop3Init /\ [][MainLoop3Next]_vars

(***************************************************************************)
(* Discovery.  DeviceDiscover keeps the devices that answered, by their    *)
(* id.  A 64-bit id is written as its three digits in base 2^24, lowest    *)
(* first.  The peers' answers are built from the fields they carry; bytes  *)
(* that carry no field are not 0 where a reader could run into them.       *)
(***************************************************************************)
MaxResponses == 2   \* UDP messages that arrive during one discover()
MinResponseLen == 104
DiscoveryPort == 6444
DiscoveryVersion == 3

\* msg.readBigUInt64LE(offset)
readBigUInt64LE(msg, offset) ==
  <<msg[offset + 1] + msg[offset + 2] * 256 + msg[offset + 3] * 65536,
    msg[offset + 4] + msg[offset + 5] * 256 + msg[offset + 6] * 65536,
    msg[offset + 7] + msg[offset + 8] * 256>>

\* the 32 bytes of a field, its 0 bytes included
FieldAt(msg, offset) == SubSeq(msg, offset + 1, offset + 32)

\* the loop over msg[offset + i], i < 32, that ends at the first 0
StringAt(msg, offset) ==
  LET ends == {i \in 0..31 : msg[offset + i + 1] = 0}
      n == IF ends = {} THEN 32 ELSE CHOOSE i \in ends : \A j \in ends : i <= j
  IN SubSeq(msg, offset + 1, offset + n)

NoDevices == [x \in {} |-> 0]

handleResponse(devices, msg, address) ==
  IF Len(msg) >= MinResponseLen /\ msg[1] = 90 /\ msg[2] = 90
  THEN LET deviceId == readBigUInt64LE(msg, 20)
           sn == StringAt(msg, 40)
           ssid == StringAt(msg, 72)
           device == [id |-> deviceId, name |-> ssid, model |-> sn, address |-> address,
                      port |-> DiscoveryPort, type |-> msg[39],
                      version |-> DiscoveryVersion, sn |-> sn]
       IN [x \in DOMAIN devices \cup {deviceId} |->
             IF x = deviceId THEN device ELSE devices[x]]
  ELSE devices

\* the answer of a peer, from its fields
IdByte(id, k) == (id[(k \div 3) + 1] \div (IF k % 3 = 0 THEN 1 ELSE IF k % 3 = 1 THEN 256 ELSE 65536)) % 256
FieldByte(str, k) == IF k < Len(str) THEN str[k + 1] ELSE 0
DiscoveryResponse(a) ==
  [i \in 1..a.len |->
     LET o == i - 1
     IN IF o < 2 THEN a.magic[o + 1]
        ELSE IF o \in 20..27 THEN IdByte(a.id, o - 20)
        ELSE IF o = 38 THEN a.type
        ELSE IF o \in 40..71 THEN FieldByte(a.sn, o - 40)
        ELSE IF o \in 72..103 THEN FieldByte(a.ssid, o - 72)
        ELSE IF o \in {37, 39} \/ o > 103 THEN 66
        ELSE 0]

LongName == [i \in 1..32 |-> 64 + i]
Answer(len, magic, id, type, sn, ssid, address) ==
  [len |-> len, magic |-> magic, id |-> id, type |-> type, sn |-> sn, ssid |-> ssid,
   address |-> address]
Answers ==
  {Answer(104, <<90, 90>>, <<1, 0, 0>>, 172, <<83, 78>>, <<110, 101, 116>>, "a"),
   Answer(104, <<90, 90>>, <<1, 0, 0>>, 250, <<83>>, <<>>, "b"),
   Answer(105, <<90, 90>>, <<65793, 2, 0>>, 172, LongName, LongName, "b"),
   Answer(104, <<90, 90>>, <<1, 0, 1>>, 172, <<>>, <<110>>, "a"),
   Answer(103, <<90, 90>>, <<7, 0, 0>>, 172, <<83>>, <<110>>, "a"),
   Answer(104, <<90, 91>>, <<8, 0, 0>>, 172, <<83>>, <<110>>, "b"),
   Answer(105, <<91, 90>>, <<1, 0, 0>>, 172, <<83>>, <<110>>, "a")}

\* the calls of discover() on one DeviceDiscover object that are followed
MaxCalls == 2
CallIds == 1..MaxCalls

\* the constructor.  socket is the call whose socket this.socket refers to
\* (0: null); sockets and promises are the socket and the promise of each
\* call, timers the calls whose setTimeout is pending; crashed: a callback
\* has thrown, which nothing catches.
DiscoverInit ==
  /\ d = [devices |-> NoDevices, socket |-> 0,
          sockets |-> [k \in CallIds |-> "none"], promises |-> [k \in CallIds |-> "none"],
          timers |-> {}, crashed |-> FALSE]
  /\ cx = [op |-> "new", log |-> <<>>]

Settle(promises, k, how) == IF promises[k] = "pending" THEN [promises EXCEPT ![k] = how] ELSE promises

\* this.socket.close() and what follows it in a callback of call k (how:
\* the promise is resolved or rejected): close() throws on a socket that is
\* closed already, and the callback ends there
CloseThen(dd, k, how) ==
  IF dd.sockets[dd.socket] = "closed" THEN [dd EXCEPT !.crashed = TRUE]
  ELSE [dd EXCEPT !.sockets[dd.socket] = "closed", !.promises = Settle(@, k, how)]

\* discover(): the executor of the promise, up to the call of bind
Discover ==
  /\ ~d.crashed
  /\ \E k \in CallIds :
       /\ d.sockets[k] = "none" /\ \A j \in 1..(k - 1) : d.sockets[j] # "none"
       /\ d' = [d EXCEPT !.devices = NoDevices, !.socket = k,
                          !.sockets[k] = "unbound", !.promises[k] = "pending"]
  /\ cx' = [op |-> "discover", log |-> <<>>]

\* the callback of bind of call k: setBroadcast throws on a socket that is
\* not bound or closed; the probe is sent and the timer is set
DiscoverBound(k) ==
  /\ ~d.crashed
  /\ d.sockets[k] = "unbound"
  /\ d' = LET d1 == [d EXCEPT !.sockets[k] = "bound"]
          IN IF d1.sockets[d1.socket] = "bound" THEN [d1 EXCEPT !.timers = @ \cup {k}]
             ELSE [d1 EXCEPT !.crashed = TRUE]
  /\ cx' = [cx EXCEPT !.op = "bound"]

\* the 'message' event of a bound socket
DiscoverMessage(a) ==
  /\ ~d.crashed
  /\ \E k \in CallIds : d.sockets[k] = "bound"
  /\ Len(cx.log) < MaxResponses
  /\ d' = [d EXCEPT !.devices = handleResponse(d.devices, DiscoveryResponse(a), a.address)]
  /\ cx' = [op |-> "message", log |-> Append(cx.log, [answer |-> a, address |-> a.address])]

\* the 'error' event of the socket of call k
DiscoverError(k) ==
  /\ ~d.crashed
  /\ d.sockets[k] \in {"unbound", "bound"}
  /\ d' = CloseThen(d, k, "rejected")
  /\ cx' = [cx EXCEPT !.op = "error"]

\* the timer of call k
DiscoverTimeout(k) ==
  /\ ~d.crashed
  /\ k \in d.timers
  /\ d' = CloseThen([d EXCEPT !.timers = @ \ {k}], k, "resolved")
  /\ cx' = [cx EXCEPT !.op = "timeout"]

DiscoverNext ==
  \/ Discover
  \/ \E k \in CallIds : DiscoverBound(k)
  \/ \E a \in Answers : DiscoverMessage(a)
  \/ \E k \in CallIds : DiscoverError(k)
  \/ \E k \in CallIds : DiscoverTimeout(k)

SpecDiscover == DiscoverInit /\ [][DiscoverNext]_vars

(***************************************************************************)
(* PacketBuilder and the AES-ECB functions of LocalSecurity, applied to    *)
(* commands, device ids and clock readings of the caller.                  *)
(***************************************************************************)
PacketHead == 38

\* PacketBuilder.packetTime(): the pairs of digits of the clock, last first
packetTime(clock) == [i \in 1..8 |-> clock[9 - i]]

\* new PacketBuilder(deviceId, command): the buffer has 38 bytes, and the
\* writes to its indices 38 and 39 are outside it
NewPacket(deviceId, clock) ==
  <<90, 90, 1, 17, 0, 0, 32, 0, 0, 0, 0, 0>> \o packetTime(clock)
    \o [k \in 1..8 |-> IdByte(deviceId, k - 1)] \o [i \in 1..(PacketHead - 28) |-> 0]

\* a finalize that takes the digest before it writes the length
finalizeStale(packet, command, msgType) ==
  LET body == IF msgType # 1 THEN [packet EXCEPT ![4] = 16, ![7] = 123]
              ELSE packet \o aesEncrypt(command)
      length == Len(body) + TagLen
  IN [body EXCEPT ![5] = length % 256, ![6] = length \div 256] \o encode32Data(body)

\* finalize(msgType)
finalize(packet, command, msgType) ==
  LET body == IF msgType # 1 THEN [packet EXCEPT ![4] = 16, ![7] = 123]
              ELSE packet \o aesEncrypt(command)
      length == Len(body) + TagLen
      sized == [body EXCEPT ![5] = length % 256, ![6] = length \div 256]
  IN sized \o encode32Data(sized)

Block(last) == [i \in 1..BlockSize |-> IF i = BlockSize THEN last ELSE (13 * i) % 256]
Commands ==
  {<<>>, <<0>>, <<1>>, <<5, 1>>, <<2, 2>>, <<3, 3, 3>>, <<170, 16>>,
   Block(1), Block(16), [i \in 1..BlockSize |-> BlockSize],
   Block(7) \o Block(1), Block(7) \o <<4, 4, 4, 4>>,
   [i \in 1..(BlockSize - 1) |-> 15]}
Clocks == {<<20, 26, 11, 4, 14, 30, 59, 12>>, <<20, 26, 12, 31, 23, 59, 59, 99>>}
PacketIds == {<<1, 0, 0>>, <<65793, 2, 0>>}
MsgTypes == {0, 1}

PacketInit ==
  /\ d = [packet |-> <<>>, cipher |-> <<>>, plain |-> <<>>]
  /\ \E command \in Commands, deviceId \in PacketIds, clock \in Clocks, msgType \in MsgTypes :
       cx = [op |-> "input", command |-> command, deviceId |-> deviceId,
             clock |-> clock, msgType |-> msgType]

\* new PacketBuilder(deviceId, command).finalize(msgType)
Finalize ==
  /\ cx.op = "input"
  /\ d' = [d EXCEPT !.packet = finalize(NewPacket(cx.deviceId, cx.clock), cx.command, cx.msgType)]
  /\ cx' = [cx EXCEPT !.op = "finalized"]

\* security.aesEncrypt(command)
Encrypt ==
  /\ cx.op = "input"
  /\ d' = [d EXCEPT !.cipher = aesEncrypt(cx.command)]
  /\ cx' = [cx EXCEPT !.op = "encrypted"]

\* security.aesDecrypt(cipher)
Decrypt ==
  /\ cx.op = "encrypted"
  /\ d' = [d EXCEPT !.plain = aesDecrypt(d.cipher)]
  /\ cx' = [cx EXCEPT !.op = "decrypted"]

PacketNext == Finalize \/ Encrypt \/ Decrypt

SpecPacket == PacketInit /\ [][PacketNext]_vars

(***************************************************************************)
(* Properties of the codec                                                 *)
(***************************************************************************)
\* C2: with a session key set, encode8370 makes a frame of every payload
\* as an encrypted request, and decoding that frame under the same key
\* returns exactly that payload as the one frame, no leftover, and sets the
\* response counter to the counter the frame was encoded with.
C2_RoundTrip ==
  /\ (cx.op = "encode" /\ cx.enc.msgType = MSGTYPE_ENCRYPTED_REQUEST /\ cx.enc.keyed)
       => ~cx.enc.err
  /\ (cx.op = "decode" /\ cx.enc.msgType = MSGTYPE_ENCRYPTED_REQUEST)
       => /\ ~cx.dec.err
          /\ cx.dec.packets = <<cx.enc.payload>>
          /\ cx.dec.rest = <<>>
          /\ d.security.responseCount = cx.enc.count

\* C3: when all of a stream has been fed, the frames decoded and the bytes
\* left in _buffer are those that feeding the stream as one chunk gives.
C3_ChunkingIndependent ==
  (cx.op = "feed" /\ cx.fed = Len(cx.stream)) =>
    LET whole == RunHandler(Begin([d EXCEPT !.buffer = <<>>], "feed"), 1, cx.stream)
    IN /\ cx.frames = whole.out.decoded
       /\ d.buffer = whole.buffer

\* C5: counters advance modulo 2^16: 0x10000 frames after the counter was 0
\* the request counter is 0 again.
C5_WrapAfter65536 == cx.issued = 65536 => d.security.requestCount = 0

\* C6: tcpKey(R, key) on a 64-byte R whose second half is the digest of the
\* first half deciphered under key installs plain XOR key and zeroes both
\* counters; on any other R it throws and leaves key and counters as they
\* were.
C6_TcpKey ==
  cx.op = "tcpKey" =>
    LET R == cx.hs.response
        plain == aesCbcDecrypt(Slice(R, 0, 32), d.key)
    IN IF Len(R) = 64 /\ sha256(plain) = Slice(R, 32, 64)
       THEN /\ ~cx.hs.err
            /\ d.security = [tcpKey |-> bufferXOR(plain, d.key),
                             requestCount |-> 0, responseCount |-> 0]
       ELSE /\ cx.hs.err
            /\ d.security = cx.hs.before

\* C8: a main loop declares the heartbeat timeout only when its last
\* HeartbeatTimeoutTicks ticks were idle: no chunk has parsed successfully
\* in the main loop's listener since.
C8_HeartbeatTimeout ==
  \A l \in d.out.hbTimeout : d.loops[l].idle >= HeartbeatTimeoutTicks

(***************************************************************************)
(* Properties of the session                                               *)
(***************************************************************************)
\* C1: the session key is set exactly while there is a socket that is not
\* torn down and on which the handshake has succeeded.
C1_KeyIffHandshaken ==
  d.protocol = 3 => (d.security.tcpKey # NoKey <=> (SocketAlive(d) /\ d.handshaken))

\* the request count after n frames written from count c on
RECURSIVE CountAfter(_, _)
CountAfter(c, n) == IF n = 0 THEN c ELSE CountAfter(NextRequestCount(c), n - 1)

\* C4: in a session of protocol 3 a callback moves the request count by one
\* step for each frame it writes to the socket, and not at all if it writes
\* none (a successful handshake puts it to 0 first).
C4_CountPerFrame ==
  d.protocol = 3 => d.security.requestCount = CountAfter(d.out.base, d.out.emitted)

\* C7: the background loop never goes round without reaching a suspension
\* point: after its socket has failed it leaves Ready for a connect attempt
\* or for its end.
C7_LoopSuspends == \A l \in LoopIds : d.loops[l].pc # "spin"

\* C10: a failed handshake ends the session: the loop has returned.
C10_AuthErrorTerminal ==
  d.out.authFailed => \A l \in LoopIds : d.loops[l].pc \in {"idle", "done"}

\* C9: when the connect attempt of an open session fails (the socket's
\* 'error' or 'timeout' event before the connection is there), the
\* observers are told {available: false} and the loop is in its backoff; in
\* its backoff a timer of the loop is armed (the guard of BackoffElapsed or
\* of WaitTimeout holds), and it leaves the backoff only by the backoff
\* timer; and when that timer fires in an open session, a new connect
\* attempt is started.
C9_ConnectRetry ==
  [][\A l \in LoopIds :
       /\ ( /\ d.isRunning /\ d.sockOwner = l /\ d.socket = "connecting"
            /\ d.loops[l].pc = "connect" /\ d.loops[l].phase = "tcp"
            /\ d'.out.op = "socketFails" )
          => /\ d'.out.notes = <<[available |-> FALSE]>>
             /\ d'.loops[l].pc = "backoff"
             /\ d'.socket = "null"
       /\ d.loops[l].pc = "backoff"
          => d.halted = "no" /\ d.loops[l].phase \in {"none", "wait"}
       /\ (d.loops[l].pc = "backoff" /\ d'.loops[l].pc # "backoff")
          => d'.out.op = "backoffElapsed"
       /\ (d.loops[l].pc = "backoff" /\ d.isRunning /\ d'.out.op = "backoffElapsed")
          => /\ d'.loops[l].pc = "connect" /\ d'.loops[l].phase = "tcp"
             /\ d'.socket = "connecting" /\ d'.sockOwner = l
    ]_vars

\* the backoff is over and an open session connects again, and no
\* handshake was ever begun: what failed before was the connect attempt
C9_Witness ==
  /\ d.out.op = "backoffElapsed"
  /\ d.isRunning
  /\ d.loops[1].pc = "connect" /\ d.socket = "connecting"
  /\ d.security.requestCount = 0 /\ d.security.tcpKey = NoKey
  /\ ~d.available

(***************************************************************************)
(* Properties of close() and open()                                        *)
(***************************************************************************)
\* C11: close() terminates the background loop and is idempotent: in a
\* closed session every activation of _run has returned or is suspended on
\* something that will still resume it (a timer, or an event of a socket
\* that is there), and close() on a closed session changes nothing.
C11_CloseTerminates ==
  [][ /\ ~d'.isRunning => \A l \in LoopIds : d'.loops[l].pc \in {"idle", "done"}
                                              \/ ~Gone(d', l)
      /\ (~d.isRunning /\ Close) => d' = d
    ]_vars

\* C12: close() cancels the pending suspensions: a closed session has no
\* socket that is connecting or open, so none is made and no connect
\* attempt is started before open() is called again.
C12_CloseCancels == ~d.isRunning => ~SocketAlive(d)

\* C13: close() on a running session tells the observers {available:
\* false}: once the session is closed and every activation of _run has
\* returned, the last availability the observers were told is false.
C13_CloseNotifies ==
  ( /\ ~d.isRunning
    /\ \A l \in LoopIds : d.loops[l].pc \in {"idle", "done"}
    /\ \E l \in LoopIds : d.loops[l].pc = "done" )
  => ~d.available

\* C14: while the session is closed no observer is called: a callback that
\* starts and ends in a closed session notifies nobody.
C14_NoCallbackAfterClose ==
  [][(~d.isRunning /\ ~d'.isRunning) => d'.out.notes = <<>>]_vars

\* C15: open() on a running session starts no activation of _run and makes
\* no socket: the call changes nothing of the device, and it is over in the
\* step of the call.
C15_OpenIdempotent ==
  [][(d.isRunning /\ d'.out.op = "open") => d' = Begin(d, "open")]_vars

\* open() was called on a running session that has a socket
C15_Witness ==
  /\ d.out.op = "open" /\ d.out.who = 0
  /\ d.isRunning /\ SocketAlive(d)
  /\ \E l \in LoopIds : d.loops[l].pc \in {"connect", "tick"}

(***************************************************************************)
(* Properties of sending                                                   *)
(***************************************************************************)
\* C16: sendCommand on a session that is not Ready (no socket that is
\* connecting or open, or protocol 3 without a handshake completed on the
\* socket) raises an error to its caller and writes nothing to a socket.
C16_NotConnected ==
  ( /\ d.out.op = "sendCommand"
    /\ ~SocketAlive(d) \/ (d.protocol = 3 /\ ~d.handshaken) )
  => d.out.threw /\ d.out.emitted = 0

\* C17: the frames a session writes carry consecutive request counts, in
\* the order of the sends: each frame's count is one (modulo 2^16) above
\* that of the frame written before it, none repeated and none left out.
C17_ConsecutiveCounts ==
  \A i \in 1..Len(d.out.sent) :
    d.out.sent[i][1] # -1 => d.out.sent[i][2] = (d.out.sent[i][1] + 1) % 65536

(***************************************************************************)
(* Properties of receiving                                                 *)
(***************************************************************************)
\* the status an inner packet carries ({}: none), and the updates that the
\* packets of a list give in the order of the list
FrameStatus(message) ==
  IF Len(message) > 56 /\ message # ERROR /\ (message[5] + message[6] * 256 - 56) % 16 = 0
     /\ message[3] + message[4] * 256 \notin {1, 4097}
  THEN processMessage(aesDecrypt(Slice(message, 40, Len(message) - 16)))
  ELSE {}

RECURSIVE ArrivalStatuses(_, _)
ArrivalStatuses(packets, i) ==
  IF i > Len(packets) \/ packets[i] = ERROR THEN <<>>
  ELSE IF FrameStatus(packets[i]) = {} THEN ArrivalStatuses(packets, i + 1)
  ELSE <<[status |-> FrameStatus(packets[i])]>> \o ArrivalStatuses(packets, i + 1)

\* C18: the observers get the status updates in the order in which the
\* frames arrived: what a chunk makes the session tell its observers is the
\* statuses of the frames which that chunk completes, one update for each
\* frame, in their order in the stream.
C18_ObserverOrder ==
  [][ ( /\ d'.out.op = "data"
        /\ d.protocol = 2 )
      => SelectSeq(d'.out.notes, LAMBDA n : "status" \in DOMAIN n)
           = ArrivalStatuses(fetchV2Message(d.buffer \o d'.out.chunk).packets, 1)
    ]_vars

\* C19: when a frame whose body is 'ERROR' has arrived whole, sent in the
\* clear or enciphered under the session key, the main loop's listener has
\* decoded it as ERROR, has dropped the socket, and has raised no exception
\* for it.
C19_ErrorFrameDrops ==
  (cx.op = "feed" /\ cx.fed = Len(cx.stream) /\ cx.stream \in {ErrFrame, EncErrFrame})
    => /\ d.out.decoded = <<ERROR>>
       /\ d.out.closed
       /\ ~d.out.caught
\* C20: when decode8370 fails on the bytes a main loop of protocol 3 has
\* received (no 8370 magic, or an enciphered frame that cannot be verified),
\* the loop's listener drops the socket and empties _buffer, the socket is
\* gone and _buffer empty when the event is over, the loop is still in its
\* main loop, and its next tick on the dropped socket starts a connect().
RunListens(dd, l) ==
  SocketAlive(dd) /\ \E i \in 1..Len(dd.listeners) : dd.listeners[i] = <<"run", l>>

C20_CodecFatalDrops ==
  [][\A l \in LoopIds :
       /\ (/\ d'.out.op = "data" /\ d.protocol = 3 /\ RunListens(d, l)
           /\ decode8370(d.security, d.buffer \o d'.out.chunk).err)
            => LET h == RunHandler(Begin(d, "data"), l, d'.out.chunk)
               IN /\ h.socket = "null" /\ h.buffer = <<>>
                  /\ d'.socket = "null" /\ d'.buffer = <<>>
                  /\ d'.out.caught
                  /\ d'.isRunning /\ d'.loops[l].pc = "tick"
       /\ (/\ d'.out.op = "tick" /\ d'.out.who = l /\ d.protocol = 3
           /\ d.socket = "null" /\ d.isRunning /\ d.loops[l].pc = "tick")
            => /\ d'.socket = "connecting" /\ d'.sockOwner = l
               /\ d'.loops[l].pc = "connect"]_vars

\* bytes without the magic have reached a main loop of protocol 3: its
\* listener caught the exception, and the loop waits for its tick
C20_Witness ==
  /\ d.protocol = 3 /\ d.out.op = "data" /\ d.out.chunk = Garbage /\ d.out.caught
  /\ d.socket = "null" /\ d.isRunning
  /\ \E l \in LoopIds : d.loops[l].pc = "tick"

(***************************************************************************)
(* Properties of the inner packet                                          *)
(***************************************************************************)
\* the checks of an inbound inner packet: the magic, the tag over all that
\* precedes it, and the checksum byte of the deciphered appliance message
Verified(packet) ==
  /\ Len(packet) > 56
  /\ packet[1] = 90 /\ packet[2] = 90
  /\ TakeLast(packet, TagLen) = encode32Data(DropLast(packet, TagLen))
  /\ LET message == aesDecrypt(Slice(packet, 40, Len(packet) - TagLen))
     IN Len(message) >= 11 /\ message[Len(message)] = checksum(Tail(DropLast(message, 1)))

\* C21: an inbound inner packet that fails a check (magic, tag, checksum of
\* the message) is not broadcast to the observers, and the socket is
\* dropped on it.
C21_OnlyVerified ==
  [][ ( /\ d'.out.op = "data" /\ d.protocol = 2
        /\ \E i \in 1..Len(d'.out.decoded) : ~Verified(d'.out.decoded[i]) )
      => /\ \A i \in 1..Len(d'.out.notes) : "status" \notin DOMAIN d'.out.notes[i]
         /\ d'.out.closed
    ]_vars

\* C22: every inbound frame whose message type is QUERY_APPLIANCE sets the
\* protocol version to byte 8 of the frame's header, is not passed to
\* processMessage, and is not broadcast to the observers.
C22_ApplianceReply ==
  [][\A v \in Versions :
       (d'.out.op = "data" /\ d.protocol = 2 /\ d'.out.chunk = ApplianceReply(v)
        /\ d.buffer = <<>>)
         => /\ d'.protocolVersion = v
            /\ d'.out.processed = <<>>
            /\ \A i \in 1..Len(d'.out.notes) : "status" \notin DOMAIN d'.out.notes[i]]_vars

(***************************************************************************)
(* Properties of the refresh                                               *)
(***************************************************************************)
\* C23: a query that got no reply within the 5 s is in the unsupported set
\* when its timer has fired, and the set only grows while the session is
\* open, across socket drops and reconnects too.
C23_UnsupportedGrows ==
  [][ /\ \A l \in LoopIds :
           (d'.out.op = "waitTimeout" /\ d'.out.who = l)
             => d.loops[l].cmds[d.loops[l].q] \in d'.unsupportedProtocol
      /\ (d.isRunning /\ d'.isRunning) => d.unsupportedProtocol \subseteq d'.unsupportedProtocol
    ]_vars

\* C24: a refreshStatus all of whose queries are in the unsupported set
\* fails without having written a frame, and the failure leaves the socket
\* as it is, in the main loop and in connect().
C24_RefreshFailedKeepsSession ==
  [][ (d'.out.refreshFailed /\ d'.out.skipped)
        => /\ d'.out.atFailure = 0
           /\ d'.out.hbTimeout = {} => (d'.socket = "open" /\ ~d'.out.closed)
    ]_vars

(***************************************************************************)
(* Properties of setIpAddress                                              *)
(***************************************************************************)
\* C25: setIpAddress with another address tears the socket down, and the
\* running session goes on to connect to the new address: an activation of
\* _run is left that will call connect(), and no socket is ever connected
\* or connecting to an address that is not the current one.
C25_SetIpReconnects ==
  [][ /\ d'.out.op = "setIpAddress"
           => /\ d'.socket = "null" /\ d'.ipAddress # d.ipAddress
              /\ d.isRunning => \E l \in LoopIds : ~Gone(d', l)
      /\ SocketAlive(d') => d'.sockAddress = d'.ipAddress
    ]_vars

(***************************************************************************)
(* Properties of a protocol 2 session                                      *)
(***************************************************************************)
\* C26: a protocol 2 session sends no handshake request and writes every
\* inner packet to the socket as it is, no 8370 frame; the request count
\* and the session key stay as constructed; and what it takes from the
\* inbound bytes are the messages their own length fields delimit.
C26_V2Unframed ==
  d.protocol = 2 =>
    /\ ~d.out.handshakeSent /\ ~d.out.keyed /\ ~d.handshaken
    /\ d.security = NewSecurity
    /\ d.out.sent = <<>>
    /\ \A i \in 1..Len(d.out.written) :
         d.out.written[i] \in {Packet(c) : c \in {"MessageQueryAppliance", "heartbeat",
                                                  "MessageQuestCustom"}}
    /\ \A i \in 1..Len(d.out.decoded) :
         Len(d.out.decoded[i]) = d.out.decoded[i][5] + d.out.decoded[i][6] * 256

\* a protocol 2 session has connected and written its first query
C26_Witness ==
  /\ d.protocol = 2 /\ d.socket = "open" /\ d.out.op = "connected"
  /\ d.out.written = <<Packet("MessageQueryAppliance")>>

(***************************************************************************)
(* Properties of the discovery                                             *)
(***************************************************************************)
\* C27: after any sequence of answers the devices are those of the answers
\* of at least 104 bytes that start with 5A 5A, one for each id among them,
\* with the type, serial number, ssid and address of the latest such answer
\* of that id; every other answer changes nothing.
Recorded(e) == e.answer.len >= 104 /\ e.answer.magic = <<90, 90>>
LatestOf(log, id) ==
  CHOOSE i \in 1..Len(log) :
    /\ Recorded(log[i]) /\ log[i].answer.id = id
    /\ \A j \in (i + 1)..Len(log) : ~(Recorded(log[j]) /\ log[j].answer.id = id)

C27_DiscoveryMap ==
  /\ DOMAIN d.devices = {cx.log[i].answer.id : i \in {j \in 1..Len(cx.log) : Recorded(cx.log[j])}}
  /\ \A id \in DOMAIN d.devices :
       LET e == cx.log[LatestOf(cx.log, id)]
       IN /\ d.devices[id].id = id
          /\ d.devices[id].type = e.answer.type
          /\ d.devices[id].sn = e.answer.sn
          /\ d.devices[id].name = e.answer.ssid
          /\ d.devices[id].address = e.address

\* two answers of one id have been recorded, and the later one is kept
C27_Witness ==
  /\ Len(cx.log) = 2
  /\ Recorded(cx.log[1]) /\ Recorded(cx.log[2])
  /\ cx.log[1].answer.id = cx.log[2].answer.id
  /\ cx.log[1].answer.type # cx.log[2].answer.type
  /\ DOMAIN d.devices = {cx.log[2].answer.id}
  /\ d.devices[cx.log[2].answer.id].type = cx.log[2].answer.type

(***************************************************************************)
(* Properties of PacketBuilder and AES-ECB                                 *)
(***************************************************************************)
\* C28: the last 16 bytes of every packet that finalize returns, for the
\* command type and for every other type, are the MD5 of all the bytes
\* before them followed by the salt.
C28_TagOfPreceding ==
  cx.op = "finalized" =>
    /\ Len(d.packet) >= PacketHead + TagLen
    /\ TakeLast(d.packet, TagLen) = md5(DropLast(d.packet, TagLen) \o salt)

\* a command of more than one block has been finalized with its length
C28_Witness ==
  /\ cx.op = "finalized" /\ cx.msgType = 1 /\ Len(cx.command) > BlockSize
  /\ d.packet[5] = Len(d.packet)

\* C29: aesDecrypt(aesEncrypt(x)) is x for every byte string x: the empty
\* one, those of whole blocks, and those that end in bytes that look like
\* a padding.
C29_EcbRoundTrip == cx.op = "decrypted" => d.plain = cx.command

\* a whole block that ends in the byte 1 has come back from the round trip
C29_Witness == cx.op = "decrypted" /\ cx.command = Block(1) /\ d.plain = Block(1)

\* C30: a frame that encode8370 returns starts with 83 70, the size as two
\* bytes (high byte first), 20, and the byte (pad << 4) | msgType, where pad
\* is (16 - (len(payload) + 2) mod 16) mod 16 for the encrypted types and 0
\* for the handshake types; the size is the length of the padded payload,
\* plus 32 for the encrypted types; it does not count the two bytes of the
\* request count, and is the length of the frame less 8.
EncodedPad == IF IsEncrypted(cx.enc.msgType) THEN (16 - ((Len(cx.enc.payload) + 2) % 16)) % 16 ELSE 0
EncodedHeader(size) == <<131, 112, size \div 256, size % 256, 32, EncodedPad * 16 + cx.enc.msgType>>
C30_Header8370 ==
  (cx.op = "encode" /\ ~cx.enc.err) =>
    /\ Len(cx.enc.out) >= 6
    /\ SubSeq(cx.enc.out, 1, 6) =
         EncodedHeader(Len(cx.enc.payload) + EncodedPad
                       + (IF IsEncrypted(cx.enc.msgType) THEN 32 ELSE 0))
    /\ cx.enc.out[3] * 256 + cx.enc.out[4] = Len(cx.enc.out) - 8

\* C30 as stated: the size counts the two bytes of the request count too
C30_SizeCountsCounter ==
  (cx.op = "encode" /\ ~cx.enc.err) =>
    /\ Len(cx.enc.out) >= 6
    /\ SubSeq(cx.enc.out, 1, 6) =
         EncodedHeader(Len(cx.enc.payload) + EncodedPad + 2
                       + (IF IsEncrypted(cx.enc.msgType) THEN 32 ELSE 0))

\* the handshake request of the 64-byte token has been encoded
C30_Witness ==
  /\ cx.op = "encode" /\ ~cx.enc.err
  /\ cx.enc.msgType = MSGTYPE_HANDSHAKE_REQUEST /\ cx.enc.payload = Token
  /\ SubSeq(cx.enc.out, 1, 6) = <<131, 112, 0, 64, 32, 0>>

\* C31: a packet that finalize returns is a header of 40 bytes, the body and
\* the tag of 16 bytes; the body is the AES-ECB ciphertext of the command
\* for the command type, and the command itself, with bytes 3 and 6 set to
\* 10 and 7B, for every other type; the length at offset 4 (low byte first)
\* is 40 + len(body) + 16 and is the length of the packet.
FullHead == 40
C31_PacketLayout ==
  cx.op = "finalized" =>
    LET body == IF cx.msgType = 1 THEN aesEncrypt(cx.command) ELSE cx.command
    IN /\ Len(d.packet) = FullHead + Len(body) + TagLen
       /\ SubSeq(d.packet, FullHead + 1, FullHead + Len(body)) = body
       /\ cx.msgType # 1 => (d.packet[4] = 16 /\ d.packet[7] = 123)
       /\ d.packet[5] + d.packet[6] * 256 = Len(d.packet)

(***************************************************************************)
(* Properties of the session as a whole                                    *)
(***************************************************************************)
\* C32: whatever open() and close() calls are made, also while an activation
\* of _run is suspended in a tick, a backoff or a connect attempt, at most
\* one activation of _run that can still run exists at any time.
C32_SingleLoop == Cardinality({l \in LoopIds : ~Gone(d, l)}) <= 1

\* C33: at most one 'data' listener that calls parseMessage is attached to
\* the socket at any time, and a chunk that holds one message, arriving
\* while _buffer is empty, is handed to processMessage at most once.
Parsers(dd) == {i \in 1..Len(dd.listeners) : dd.listeners[i][1] \in {"wait", "run"}}
C33_ParsedOnce ==
  [][/\ Cardinality(Parsers(d')) <= 1
     /\ (d'.out.op = "data" /\ d.buffer = <<>> /\ d'.out.chunk \in {V2Status(0), V2Status(1)})
          => Len(d'.out.processed) <= 1]_vars

\* C34: in a protocol 3 session, whatever the user calls while the loop
\* connects and authenticates, a frame of an encrypted type is written only
\* to a socket on which the handshake has completed, under the key derived
\* on that socket.
EncryptedFrame(frame) == Len(frame) >= 6 /\ frame[1] = 131 /\ IsEncrypted(frame[6] % 16)
C34_NoEarlyEncrypted ==
  d.protocol = 3 =>
    \A i \in 1..Len(d.out.written) :
      EncryptedFrame(d.out.written[i]) => (d.socket = "open" /\ d.handshaken)

\* sendCommand was called on a new socket whose handshake is not over, while
\* the key of an earlier socket is still there, and wrote nothing
C34_Witness ==
  /\ d.protocol = 3 /\ d.out.op = "sendCommand"
  /\ d.socket = "open" /\ ~d.handshaken /\ d.security.tcpKey # NoKey
  /\ d.out.written = <<>>

\* C35: whenever available is true there is a connected socket, on which,
\* for protocol 3, the handshake has succeeded; so available is false before
\* the first connect, after a heartbeat timeout, after setIpAddress and
\* after close().
C35_AvailableMeansConnected ==
  d.available => (d.socket = "open" /\ (d.protocol = 3 => d.handshaken))

\* C36: while a main loop of a running session waits for its tick and fewer
\* than 120 ticks have passed without a parsed chunk, no timer takes the
\* socket away: neither the socket's own inactivity timeout nor a tick.
C36_OnlyHeartbeatDrops ==
  [][\A l \in LoopIds :
       (/\ d.loops[l].pc = "tick" /\ d.socket = "open" /\ d.isRunning
        /\ d.loops[l].idle + 1 < HeartbeatTimeoutTicks
        /\ d.loops[l].timeoutCounter + 1 < HeartbeatTimeoutTicks
        /\ d'.out.timedOut \/ (d'.out.op = "tick" /\ d'.out.who = l))
       => d'.socket = "open"]_vars

\* C37: refreshStatus(true) does not end with RefreshFailed when one of its
\* queries got a response that parsed: when the timer of a waited query
\* fires while fewer failures are counted than queries are over, the
\* refresh does not fail.
C37_OneAnswerSuffices ==
  [][\A l \in LoopIds :
       (/\ d.loops[l].phase = "wait" /\ d.loops[l].errorCount < d.loops[l].q - 1
        /\ d'.out.op = "waitTimeout" /\ d'.out.who = l)
       => ~d'.out.refreshFailed]_vars

\* C38: authenticate does not depend on how the peer's 72-byte reply is
\* split into chunks: a first chunk of 20 to 71 bytes of a valid reply does
\* not make the handshake fail.
C38_ChunkedReply ==
  [][(/\ d.protocol = 3 /\ d.key = Key16
      /\ \E i \in 1..Len(d.listeners) : d.listeners[i][1] = "once"
      /\ d'.out.op = "data" /\ d'.out.chunk = HsHead)
     => ~d'.out.authFailed]_vars

\* C39: fetchV2Message ends on every buffer, every message it extracts has
\* at least one byte, and the messages followed by the remainder are the
\* buffer; here for every chunk that a protocol 2 session has received.
RECURSIVE Joined(_)
Joined(packets) == IF packets = <<>> THEN <<>> ELSE Head(packets) \o Joined(Tail(packets))
C39_FetchTerminates ==
  /\ d.halted # "fetch"
  /\ (d.protocol = 2 /\ d.out.op = "data") =>
       LET r == fetchV2Message(d.out.chunk)
       IN /\ ~r.hang
          /\ \A i \in 1..Len(r.packets) : Len(r.packets[i]) >= 1
          /\ Joined(r.packets) \o r.rest = d.out.chunk

\* C40: no callback of discover() throws, and once the bind callback and the
\* timer of a call are over or can no longer come, the socket of that call
\* is closed and its promise is settled: on the timeout, on a socket error
\* before or after the probe, and with overlapping calls.
C40_SocketClosedOnce ==
  /\ ~d.crashed
  /\ \A k \in CallIds :
       (d.sockets[k] \in {"bound", "closed"} /\ k \notin d.timers)
         => (d.sockets[k] = "closed" /\ d.promises[k] \in {"resolved", "rejected"})
====
